---- MODULE Spec2Model ----
(***************************************************************************)
(* Multi-pass parcel enrichment: the parcel store (src/src/db.py), the     *)
(* pass-1 scan (scripts/batch_ndvi_scan.py), the historical slope pass     *)
(* (scripts/batch_historical_slope.py) and the USPS vacancy pass           *)
(* (scripts/batch_usps_enrich.py).                                         *)
(*                                                                         *)
(* One table, gis_parcels_core, is shared by every specification below.    *)
(* Each specification starts the columns it does not write at a fixed      *)
(* value and leaves them alone.                                            *)
(***************************************************************************)
EXTENDS Integers, Sequences, FiniteSets, TLC

\* ------------------------------------------------------------------ bounds
NumParcels == 2        \* rows of gis_parcels_core in the county
MaxWorkers == 2        \* --workers
FlushEvery == 1        \* --flush-every
MaxRuns == 2           \* how many times a pass is started in one behaviour

MaxUspsRuns == 1       \* vacancy runs (processes) in one behaviour

MaxJournal == 1        \* lines of the backup file

MaxStreak == 21        \* consecutive failed checks, over the consumers

NumProcs == 2          \* processes of the vacancy pass that are started

\* SQL NULL / Python None for numeric and date columns
Null == 0 - 1000000
\* SQL NULL / Python None for text columns
NULL == "NULL"

Parcels == 1..NumParcels

\* ----------------------------------------------------------------- helpers
Range(s) == {s[i] : i \in 1..Len(s)}

Min(a, b) == IF a < b THEN a ELSE b

Prefix(s, n) == SubSeq(s, 1, Min(n, Len(s)))

RECURSIVE SortBy(_, _)
\* the elements of S as a sequence, ascending in key[.] (key is injective on S)
SortBy(S, key) ==
    IF S = {} THEN <<>>
    ELSE LET m == CHOOSE x \in S : \A y \in S : key[x] <= key[y]
         IN  <<m>> \o SortBy(S \ {m}, key)

\* ORDER BY md5(parcel_id): a fixed shuffle of the parcel ids that is not the
\* id order (even ids first, then odd ids)
md5 == [p \in Parcels |-> IF p % 2 = 0 THEN p ELSE p + NumParcels]

\* query += " LIMIT %s" only "if limit:" (None and 0 mean no limit)
ApplyLimit(rows, limit) == IF limit > 0 THEN Prefix(rows, limit) ELSE rows

\* --------------------------------------------------------------- variables
VARIABLES
    gis_parcels_core,   \* parcel_id -> row
    now,                \* the store's clock (NOW()), in days
    \* --- one shape-A run (pass 1 or slope pass): the main thread and its pool
    pc,                 \* where main() is
    runs,               \* runs started so far
    limit,              \* --limit of the runs (0: none)
    parcels,            \* the work list main() loaded
    futures,            \* parcel_id -> the future submitted for it
    collected,          \* parcel ids whose future the as_completed loop collected
    results_buffer,     \* the deque of results waiting for a flush
    shutdown_event,     \* threading.Event set by the SIGINT handler / abort
    dry_run,            \* --dry-run of the current run
    \* --- history of the current run (not program state)
    committed,          \* parcel ids whose result row a flush committed (all runs)
    completed,          \* parcel ids whose task returned a result in this run
    drained,            \* parcel ids that were in the batch of some flush of this run
    late_calls,         \* parcel ids whose task was started with shutdown set
    \* --- vacancy writes (history, not program state)
    usps_loaded,        \* parcel ids of the vacancy run's work list with no result committed yet
    usps_batch,         \* the rows batch_update_usps_results committed in the latest step
    usps_rate_limited,  \* parcel ids whose latest vacancy write was a flushed 429 result
    \* --- one vacancy run (shape B): shared queue, consumer threads, journal
    work_queue,         \* queue.Queue of resolved parcels
    consumers,          \* account -> the consumer thread of that account
    usps_journal,       \* rows of the local JSON-lines backup file
    \* --- history of the journal (not program state)
    inline_store,       \* the store had every failed flush been written in-line
    \* --- history of the circuit breaker (not program state)
    breaker,            \* account -> what its consumer's checks have returned
    \* --- the pid-file lock of the vacancy pass
    lock_file,          \* the pid written in LOCK_FILE (0: no file)
    procs,              \* pid -> where that process is in acquire_lock / main
    \* --- the conviction pass
    conviction,         \* where main() is, the row fetched, its scores, the columns stored
    \* --- overlapping runs on one store
    held,               \* parcel -> how many running pass-1 / slope runs hold it, and the last statement
    \* --- one call of generate_all_flags
    evaluated,          \* the collector outputs passed and the flags returned
    \* --- one call of split_situs
    parsed,             \* the components formatted, the fallbacks and the dict returned
    \* --- the result buffer under several threads
    buffering,          \* each thread's place in flush_buffer and the batches handed over
    \* --- one flush, statement by statement
    txn,                \* the open transaction of a flush: its statements, how many ran, what its session sees
    \* --- the pacing of one checker
    pacing,             \* one USPSVacancyChecker: _last_request and when its last two requests went out
    \* --- the 429 backoff of one checker
    backoff,            \* one USPSVacancyChecker: _consecutive_429s before and after its last request, and the sleep
    \* --- the bearer token of one checker
    bearer,             \* one USPSVacancyChecker: _token_expires, _last_request and when its last request went out
    \* --- the geocoder cache
    geocoder,           \* geocode.py: _cache, and what the last resolve_city_zip call found and did
    \* --- the CDSE budget of a trend run
    budget,             \* one run of batch_sentinel_enrich.py: its counters and the requests sent
    \* --- the counters of a shape-A run
    tally,              \* which shape-A script runs and its stats dict
    \* --- a failed flush of a shape-A run
    requeue             \* the buffer, the batch a flush drained, the flushed counter and what the last flush did

vars == <<gis_parcels_core, now, pc, runs, limit, parcels, futures, collected,
          results_buffer, shutdown_event, dry_run, committed, completed, drained,
          late_calls, usps_loaded, usps_batch, usps_rate_limited,
          work_queue, consumers, usps_journal, inline_store,
          breaker, lock_file, procs, conviction, held,
    evaluated,
    parsed,
    buffering,
    txn,
    pacing,
    backoff,
    bearer,
    geocoder,
    budget,
    tally,
    requeue>>

\* what the passes modelled first never touch
auxVars == <<inline_store, breaker, lock_file, procs, conviction, held,
    evaluated,
    parsed,
    buffering,
    txn,
    pacing,
    backoff,
    bearer,
    geocoder,
    budget,
    tally,
    requeue>>

\* auxVars without what one entry point touches
auxButJournal == <<breaker, lock_file, procs, conviction, held,
    evaluated,
    parsed,
    buffering,
    txn,
    pacing,
    backoff,
    bearer,
    geocoder,
    budget,
    tally,
    requeue>>

auxButBreaker == <<inline_store, lock_file, procs, conviction, held,
    evaluated,
    parsed,
    buffering,
    txn,
    pacing,
    backoff,
    bearer,
    geocoder,
    budget,
    tally,
    requeue>>

auxButLock == <<inline_store, breaker, conviction, held,
    evaluated,
    parsed,
    buffering,
    txn,
    pacing,
    backoff,
    bearer,
    geocoder,
    budget,
    tally,
    requeue>>

auxButConviction == <<inline_store, breaker, lock_file, procs, held,
    evaluated,
    parsed,
    buffering,
    txn,
    pacing,
    backoff,
    bearer,
    geocoder,
    budget,
    tally,
    requeue>>

auxButHeld == <<inline_store, breaker, lock_file, procs, conviction,
    evaluated,
    parsed,
    buffering,
    txn,
    pacing,
    backoff,
    bearer,
    geocoder,
    budget,
    tally,
    requeue>>

auxButEvaluated == <<inline_store, breaker, lock_file, procs, conviction, held,
    parsed,
    buffering,
    txn,
    pacing,
    backoff,
    bearer,
    geocoder,
    budget,
    tally,
    requeue>>

auxButParsed == <<inline_store, breaker, lock_file, procs, conviction, held, evaluated,
    buffering,
    txn,
    pacing,
    backoff,
    bearer,
    geocoder,
    budget,
    tally,
    requeue>>

auxButBuffering == <<inline_store, breaker, lock_file, procs, conviction, held, evaluated, parsed,
    txn,
    pacing,
    backoff,
    bearer,
    geocoder,
    budget,
    tally,
    requeue>>

auxButTxn == <<inline_store, breaker, lock_file, procs, conviction, held, evaluated, parsed, buffering,
    pacing,
    backoff,
    bearer,
    geocoder,
    budget,
    tally,
    requeue>>

auxButPacing == <<inline_store, breaker, lock_file, procs, conviction, held, evaluated, parsed, buffering, txn,
    backoff,
    bearer,
    geocoder,
    budget,
    tally,
    requeue>>

auxButBackoff == <<inline_store, breaker, lock_file, procs, conviction, held, evaluated, parsed, buffering, txn, pacing,
    bearer,
    geocoder,
    budget,
    tally,
    requeue>>

auxButBearer == <<inline_store, breaker, lock_file, procs, conviction, held, evaluated, parsed, buffering, txn, pacing, backoff,
    geocoder,
    budget,
    tally,
    requeue>>

auxButGeocoder == <<inline_store, breaker, lock_file, procs, conviction, held, evaluated, parsed, buffering, txn, pacing, backoff, bearer,
    budget,
    tally,
    requeue>>

auxButBudget == <<inline_store, breaker, lock_file, procs, conviction, held, evaluated, parsed, buffering, txn, pacing, backoff, bearer, geocoder,
    tally,
    requeue>>

auxButTally == <<inline_store, breaker, lock_file, procs, conviction, held, evaluated, parsed, buffering, txn, pacing, backoff, bearer, geocoder, budget,
    requeue>>

auxButRequeue == <<inline_store, breaker, lock_file, procs, conviction, held, evaluated, parsed, buffering, txn, pacing, backoff, bearer, geocoder, budget, tally>>

\* what only the vacancy pass touches
vacancyRunVars == <<work_queue, consumers, usps_journal, auxVars>>

uspsVars == <<usps_loaded, usps_batch, usps_rate_limited, vacancyRunVars>>

runVars == <<pc, runs, limit, parcels, futures, collected, results_buffer,
             shutdown_event, dry_run, committed, completed, drained, late_calls>>

\* --accounts: one consumer thread per USPS account
Accounts == {1, 3}

\* a consumer thread: where it is, the parcel it holds, its
\* consecutive_errors counter and whether its checker has made a request
\* (checker._last_request > 0)
NoConsumer ==
    [state |-> "none", parcel |-> 0, consecutive_errors |-> 0, requested |-> FALSE]

\* nothing of the other entry points has happened
JournalIdle == inline_store = <<>>

BreakerIdle == breaker = <<>>

LockIdle == lock_file = 0 /\ procs = <<>>

ConvictionIdle == conviction = <<>>

\* the entry points modelled last, but for one of them
LaterIdle(but) ==
    /\ (but = "held" \/ held = <<>>)
    /\ (but = "evaluated" \/ evaluated = <<>>)
    /\ (but = "parsed" \/ parsed = <<>>)
    /\ (but = "buffering" \/ buffering = <<>>)
    /\ (but = "txn" \/ txn = <<>>)
    /\ (but = "pacing" \/ pacing = <<>>)
    /\ (but = "backoff" \/ backoff = <<>>)
    /\ (but = "bearer" \/ bearer = <<>>)
    /\ (but = "geocoder" \/ geocoder = <<>>)
    /\ (but = "budget" \/ budget = <<>>)
    /\ (but = "tally" \/ tally = <<>>)
    /\ (but = "requeue" \/ requeue = <<>>)

AuxIdle == JournalIdle /\ BreakerIdle /\ LockIdle /\ ConvictionIdle /\ LaterIdle("")

\* no vacancy run has started
UspsIdle ==
    /\ AuxIdle
    /\ usps_loaded = {}
    /\ usps_batch = <<>>
    /\ usps_rate_limited = {}
    /\ work_queue = <<>>
    /\ consumers = [a \in Accounts |-> NoConsumer]
    /\ usps_journal = <<>>

\* ------------------------------------------------------------ the store
\* flood columns of a parcel the flood ingest has not reached
NoFema == [sfha |-> NULL, risk |-> NULL, zone |-> NULL]

\* A row as the external ingest pre-loads it: identity columns set, every
\* pass column NULL or at its column DEFAULT.
BlankRow(lat, situs, fema, composite) ==
    [ latitude            |-> lat,        \* longitude is NULL iff latitude is
      situs_address       |-> situs,
      ndvi_score          |-> Null,
      ndvi_date           |-> Null,
      ndvi_category       |-> NULL,
      scan_date           |-> Null,
      scan_pass           |-> Null,
      sentinel_worthy     |-> FALSE,      \* BOOLEAN DEFAULT FALSE
      sentinel_scan_date  |-> Null,
      ndvi_slope_5yr      |-> Null,
      ndvi_history_count  |-> Null,
      ndvi_history_years  |-> NULL,
      ndvi_slope_pctile   |-> Null,
      fema_sfha           |-> fema.sfha,
      fema_risk           |-> fema.risk,
      fema_zone           |-> fema.zone,
      distress_composite  |-> composite,
      usps_vacant         |-> NULL,       \* nullable booleans: "TRUE", "FALSE", NULL
      usps_dpv_confirmed  |-> NULL,
      usps_address_mismatch |-> NULL,
      usps_check_date     |-> Null,
      usps_error          |-> NULL,
      flag_vacancy        |-> FALSE,      \* BOOLEAN DEFAULT FALSE
      vacancy_confidence  |-> Null ]

\* COALESCE(x, d) and GREATEST(a, b)
COALESCE(x, d) == IF x = Null THEN d ELSE x
GREATEST(a, b) == IF a >= b THEN a ELSE b

\* commits in 500-row chunks
chunk_size == 500

NumChunks(rows) == (Len(rows) + chunk_size - 1) \div chunk_size

\* the rows of the first k chunks
FirstChunks(rows, k) == Prefix(rows, k * chunk_size)


\* ------------------------------------------------- pass 1: store operations
\* WHERE county = %s AND latitude IS NOT NULL AND longitude IS NOT NULL
\*   AND scan_date IS NULL ORDER BY md5(parcel_id) [LIMIT %s]
get_unscanned_parcels(store, lim) ==
    ApplyLimit(SortBy({p \in Parcels : /\ store[p].latitude # Null
                                       /\ store[p].scan_date = Null}, md5), lim)

\* an UPDATE that sets the columns of update_scan_row and puts the trend
\* date and the composite back to NULL
update_scan_row_resetting(store, r) ==
    [store EXCEPT ![r.parcel_id] =
        [@ EXCEPT !.ndvi_score         = r.ndvi_score,
                  !.ndvi_date          = r.ndvi_date,
                  !.ndvi_category      = r.ndvi_category,
                  !.fema_zone          = r.fema_zone,
                  !.fema_risk          = r.fema_risk,
                  !.fema_sfha          = r.fema_sfha,
                  !.scan_date          = r.scan_date,
                  !.scan_pass          = r.scan_pass,
                  !.sentinel_worthy    = r.sentinel_worthy,
                  !.sentinel_scan_date = Null,
                  !.distress_composite = Null]]

\* a pass-1 UPDATE that forgets the scan_date column
update_scan_row_no_date(store, r) ==
    [store EXCEPT ![r.parcel_id] =
        [@ EXCEPT !.ndvi_score      = r.ndvi_score,
                  !.ndvi_date       = r.ndvi_date,
                  !.ndvi_category   = r.ndvi_category,
                  !.fema_zone       = r.fema_zone,
                  !.fema_risk       = r.fema_risk,
                  !.fema_sfha       = r.fema_sfha,
                  !.scan_pass       = r.scan_pass,
                  !.sentinel_worthy = r.sentinel_worthy]]

\* UPDATE gis_parcels_core SET ndvi_score = .., fema_zone = .., fema_risk = ..,
\*   fema_sfha = .., scan_date = %(scan_date)s, scan_pass = %(scan_pass)s,
\*   sentinel_worthy = .. WHERE parcel_id = .. (the distress_score and flag
\*   columns it also sets are not in the model's rows)
update_scan_row(store, r) ==
    [store EXCEPT ![r.parcel_id] =
        [@ EXCEPT !.ndvi_score      = r.ndvi_score,
                  !.ndvi_date       = r.ndvi_date,
                  !.ndvi_category   = r.ndvi_category,
                  !.fema_zone       = r.fema_zone,
                  !.fema_risk       = r.fema_risk,
                  !.fema_sfha       = r.fema_sfha,
                  !.scan_date       = r.scan_date,
                  !.scan_pass       = r.scan_pass,
                  !.sentinel_worthy = r.sentinel_worthy]]

\* WHERE county = %s AND sentinel_worthy = TRUE AND sentinel_scan_date IS NULL
\*   AND latitude IS NOT NULL AND longitude IS NOT NULL
get_sentinel_worthy_parcels(store) ==
    {p \in Parcels : /\ store[p].sentinel_worthy = TRUE
                     /\ store[p].sentinel_scan_date = Null
                     /\ store[p].latitude # Null}

\* UPDATE gis_parcels_core SET sentinel_scan_date = .., (re-scored flags) ..,
\*   scan_pass = GREATEST(COALESCE(scan_pass, 0), %(scan_pass)s)
update_sentinel_row(store, r) ==
    [store EXCEPT ![r.parcel_id] =
        [@ EXCEPT !.sentinel_scan_date = r.sentinel_scan_date,
                  !.scan_pass = GREATEST(COALESCE(@, 0), r.scan_pass)]]

\* enrich_sentinel + rescore_with_sentinel: the trend row of a parcel
\* ("sentinel_scan_date": datetime.now(), "scan_pass": 2)
rescore_with_sentinel(p, t) ==
    [parcel_id |-> p, sentinel_scan_date |-> t, scan_pass |-> 2]

\* ------------------------------------------------ slope pass: store operations
\* WHERE county = %s AND ndvi_score IS NOT NULL AND ndvi_slope_5yr IS NULL
\*   AND latitude IS NOT NULL AND longitude IS NOT NULL
\*   ORDER BY md5(parcel_id) [LIMIT %s]
get_parcels_needing_slope(store, lim) ==
    ApplyLimit(SortBy({p \in Parcels : /\ store[p].ndvi_score # Null
                                       /\ store[p].ndvi_slope_5yr = Null
                                       /\ store[p].latitude # Null}, md5), lim)

\* a slope UPDATE that leaves the slope column alone
update_slope_row_no_slope(store, r) ==
    [store EXCEPT ![r.parcel_id] =
        [@ EXCEPT !.ndvi_history_count = r.ndvi_history_count,
                  !.ndvi_history_years = r.ndvi_history_years]]

\* UPDATE gis_parcels_core SET ndvi_slope_5yr = .., ndvi_history_count = ..,
\*   ndvi_history_years = .. WHERE parcel_id = ..
update_slope_row(store, r) ==
    [store EXCEPT ![r.parcel_id] =
        [@ EXCEPT !.ndvi_slope_5yr     = r.ndvi_slope_5yr,
                  !.ndvi_history_count = r.ndvi_history_count,
                  !.ndvi_history_years = r.ndvi_history_years]]

\* --ndvi-weight and --fema-weight, in hundredths
ndvi_weight == 70
fema_weight == 30

\* a percentile from ROW_NUMBER(): rows with equal slopes get consecutive
\* positions, in parcel_id order
PERCENT_ROW_NUMBER(store, p) ==
    LET rows  == {q \in Parcels : store[q].ndvi_slope_5yr # Null}
        below == {q \in rows : \/ store[q].ndvi_slope_5yr < store[p].ndvi_slope_5yr
                                \/ /\ store[q].ndvi_slope_5yr = store[p].ndvi_slope_5yr
                                   /\ q < p}
    IN  IF Cardinality(rows) <= 1 THEN 0
        ELSE (100 * Cardinality(below)) \div (Cardinality(rows) - 1)

\* PERCENT_RANK() OVER (ORDER BY ndvi_slope_5yr ASC) * 100 among the rows with
\* a slope: (rank - 1) / (rows - 1), 0 for a single row (whole percents)
PERCENT_RANK(store, p) ==
    LET rows  == {q \in Parcels : store[q].ndvi_slope_5yr # Null}
        below == {q \in rows : store[q].ndvi_slope_5yr < store[p].ndvi_slope_5yr}
    IN  IF Cardinality(rows) <= 1 THEN 0
        ELSE (100 * Cardinality(below)) \div (Cardinality(rows) - 1)

\* CASE WHEN fema_sfha = TRUE THEN 10 WHEN fema_risk = 'high' THEN 10
\*      WHEN 'moderate' THEN 6 WHEN 'low' THEN 2 ELSE 0
fema_score(row) ==
    IF row.fema_sfha = "TRUE" THEN 10
    ELSE IF row.fema_risk = "high" THEN 10
    ELSE IF row.fema_risk = "moderate" THEN 6
    ELSE IF row.fema_risk = "low" THEN 2
    ELSE 0

\* compute_composite_scores: step 1 sets ndvi_slope_pctile of the rows with a
\* slope, step 2 sets distress_composite (in hundredths) of the rows with a
\* slope or a flood zone
compute_composite_scores(store) ==
    LET ranked == [p \in Parcels |->
                     IF store[p].ndvi_slope_5yr # Null
                     THEN [store[p] EXCEPT !.ndvi_slope_pctile = PERCENT_RANK(store, p)]
                     ELSE store[p]]
    IN  [p \in Parcels |->
           IF ranked[p].ndvi_slope_5yr # Null \/ ranked[p].fema_zone # NULL
           THEN [ranked[p] EXCEPT !.distress_composite =
                    (ndvi_weight * COALESCE(ranked[p].ndvi_slope_pctile, 0)) \div 10
                    + fema_weight * fema_score(ranked[p])]
           ELSE ranked[p]]

\* --------------------------------------------- vacancy pass: store operations
\* a transient set that forgot http_503
USPS_TRANSIENT_ERRORS_no_503 ==
    {"rate_limited", "http_500", "http_502", "http_504"}

\* _USPS_TRANSIENT_ERRORS
USPS_TRANSIENT_ERRORS ==
    {"rate_limited", "http_500", "http_502", "http_503", "http_504"}

\* "if not err": None or the empty string
no_error(err) == err = NULL \/ err = ""

\* the success UPDATE: result columns, usps_check_date = NOW(), usps_error = NULL
update_usps_success_row(store, r, t) ==
    [store EXCEPT ![r.parcel_id] =
        [@ EXCEPT !.usps_vacant        = r.usps_vacant,
                  !.usps_dpv_confirmed = r.usps_dpv_confirmed,
                  !.usps_address_mismatch = r.usps_address_mismatch,
                  !.usps_check_date    = t,
                  !.usps_error         = NULL,
                  !.flag_vacancy       = r.flag_vacancy,
                  !.vacancy_confidence = r.vacancy_confidence]]

\* a transient UPDATE that also stamps the check date
update_usps_transient_row_dated(store, r, t) ==
    [store EXCEPT ![r.parcel_id] =
        [@ EXCEPT !.usps_error         = r.usps_error,
                  !.usps_check_date    = t,
                  !.flag_vacancy       = FALSE,
                  !.vacancy_confidence = Null]]

\* the transient UPDATE: usps_error, flag_vacancy = FALSE,
\* vacancy_confidence = NULL; usps_check_date is not in the SET list
update_usps_transient_row(store, r, t) ==
    [store EXCEPT ![r.parcel_id] =
        [@ EXCEPT !.usps_error         = r.usps_error,
                  !.flag_vacancy       = FALSE,
                  !.vacancy_confidence = Null]]

\* a permanent UPDATE that leaves the check date alone
update_usps_permanent_row_undated(store, r, t) ==
    [store EXCEPT ![r.parcel_id] =
        [@ EXCEPT !.usps_error         = r.usps_error,
                  !.flag_vacancy       = FALSE,
                  !.vacancy_confidence = Null]]

\* the permanent UPDATE: usps_error, usps_check_date = NOW(),
\* flag_vacancy = FALSE, vacancy_confidence = NULL
update_usps_permanent_row(store, r, t) ==
    [store EXCEPT ![r.parcel_id] =
        [@ EXCEPT !.usps_error         = r.usps_error,
                  !.usps_check_date    = t,
                  !.flag_vacancy       = FALSE,
                  !.vacancy_confidence = Null]]

\* ------------------------------------------------------------ batch writers
\* one UPDATE statement applied to one row of a batch
execute(update_sql, store, r, t) ==
    CASE update_sql = "scan"           -> update_scan_row(store, r)
      [] update_sql = "sentinel"       -> update_sentinel_row(store, r)
      [] update_sql = "slope"          -> update_slope_row(store, r)
      [] update_sql = "usps_success"   -> update_usps_success_row(store, r, t)
      [] update_sql = "usps_transient" -> update_usps_transient_row(store, r, t)
      [] update_sql = "usps_permanent" -> update_usps_permanent_row(store, r, t)

RECURSIVE execute_batch(_, _, _, _)
\* execute_batch(cur, update_sql, rows): the UPDATE run once per row, in order
execute_batch(store, update_sql, rows, t) ==
    IF rows = <<>> THEN store
    ELSE execute_batch(execute(update_sql, store, Head(rows), t),
                       update_sql, Tail(rows), t)

\* the store after the first k chunks of results were committed
\* (k = NumChunks(results): the call returned; k smaller: it raised)
batch_update_scan_results(store, results, k) ==
    execute_batch(store, "scan", FirstChunks(results, k), Null)

batch_update_sentinel_results(store, results, k) ==
    execute_batch(store, "sentinel", FirstChunks(results, k), Null)

batch_update_slope_results(store, results, k) ==
    execute_batch(store, "slope", FirstChunks(results, k), Null)

\* the three classes batch_update_usps_results sorts results into
success_results(results) ==
    SelectSeq(results, LAMBDA r : no_error(r.usps_error))

transient_results(results) ==
    SelectSeq(results, LAMBDA r : /\ ~no_error(r.usps_error)
                                  /\ r.usps_error \in USPS_TRANSIENT_ERRORS)

permanent_results(results) ==
    SelectSeq(results, LAMBDA r : /\ ~no_error(r.usps_error)
                                  /\ r.usps_error \notin USPS_TRANSIENT_ERRORS)

\* batch_update_usps_results at store time t: the three execute_batch calls
\* in one transaction with a single commit; raised: it failed before the
\* commit and nothing was written
batch_update_usps_results(store, results, t, raised) ==
    IF raised THEN store
    ELSE execute_batch(
           execute_batch(
             execute_batch(store, "usps_success", success_results(results), t),
             "usps_transient", transient_results(results), t),
           "usps_permanent", permanent_results(results), t)

\* update_parcel_usps: the single-check UPDATE; usps_check_date = NOW() and
\* usps_error = result.error whatever the error is
update_parcel_usps(store, r, t) ==
    [store EXCEPT ![r.parcel_id] =
        [@ EXCEPT !.usps_vacant        = r.usps_vacant,
                  !.usps_dpv_confirmed = r.usps_dpv_confirmed,
                  !.usps_address_mismatch = r.usps_address_mismatch,
                  !.usps_check_date    = t,
                  !.usps_error         = r.usps_error,
                  !.flag_vacancy       = r.flag_vacancy,
                  !.vacancy_confidence = r.vacancy_confidence]]


\* --min-composite (in hundredths) and --cache-days defaults
min_composite == 700
cache_days == 60

\* the WHERE clause of get_parcels_needing_usps at store time t:
\*   situs_address IS NOT NULL AND latitude IS NOT NULL AND longitude IS NOT NULL
\*   AND distress_composite >= %s
\*   AND (usps_check_date IS NULL
\*        OR usps_check_date < NOW() - make_interval(days => %s)
\*        OR usps_error IS NOT NULL)
needs_usps(row, t, min_c, cache) ==
    /\ row.situs_address # NULL
    /\ row.latitude # Null
    /\ row.distress_composite # Null
    /\ row.distress_composite >= min_c
    /\ \/ row.usps_check_date = Null
       \/ row.usps_check_date < t - cache
       \/ row.usps_error # NULL

\* ORDER BY distress_composite DESC NULLS LAST: the key of a selected row
\* (rows of equal composite come out in parcel_id order here)
composite_desc(store) ==
    [p \in Parcels |-> (0 - store[p].distress_composite) * (NumParcels + 1) + p]

\* get_parcels_needing_usps(conn, county, limit, min_composite, cache_days)
get_parcels_needing_usps(store, t, lim, min_c, cache) ==
    ApplyLimit(SortBy({p \in Parcels : needs_usps(store[p], t, min_c, cache)},
                      composite_desc(store)), lim)

\* ------------------------------------------------ vacancy pass: one check
\* what the USPS address endpoint can answer: an HTTP status with the
\* additionalInfo flags of a 200, or no answer at all (status 0: the request
\* raised with message exc)
UspsResponses ==
    { [status |-> 200, vacant |-> "Y", DPVConfirmation |-> "Y", mismatch |-> FALSE, exc |-> ""],
      [status |-> 429, vacant |-> "",  DPVConfirmation |-> "",  mismatch |-> FALSE, exc |-> ""],
      [status |-> 503, vacant |-> "",  DPVConfirmation |-> "",  mismatch |-> FALSE, exc |-> ""],
      [status |-> 404, vacant |-> "",  DPVConfirmation |-> "",  mismatch |-> FALSE, exc |-> ""] }

\* f"http_{status}"
http_error(status) ==
    CASE status = 400 -> "http_400"
      [] status = 401 -> "http_401"
      [] status = 404 -> "http_404"
      [] status = 500 -> "http_500"
      [] status = 502 -> "http_502"
      [] status = 503 -> "http_503"
      [] status = 504 -> "http_504"

\* "x == 'Y' if x in (..) else None" as a nullable boolean
yes_no(flag, known) ==
    IF flag \in known THEN (IF flag = "Y" THEN "TRUE" ELSE "FALSE") ELSE NULL

\* the VacancyResult of check_address for a response: 429 gives error
\* "rate_limited", another HTTP error "http_<status>", a request that raised
\* str(e), a 200 the parsed flags and error None
check_address(resp) ==
    IF resp.status = 200
    THEN [vacant           |-> yes_no(resp.vacant, {"Y", "N"}),
          dpv_confirmed    |-> yes_no(resp.DPVConfirmation, {"Y", "N", "S", "D"}),
          address_mismatch |-> resp.mismatch,
          error            |-> NULL]
    ELSE [vacant |-> NULL, dpv_confirmed |-> NULL, address_mismatch |-> FALSE,
          error  |-> IF resp.status = 429 THEN "rate_limited"
                     ELSE IF resp.status = 0 THEN resp.exc
                     ELSE http_error(resp.status)]

\* an evaluator that flags every answered check
evaluate_usps_vacancy_answered(usps) ==
    [flag |-> usps.vacant # NULL, confidence |-> 75]

\* evaluate_usps_vacancy: flag and confidence (in hundredths)
evaluate_usps_vacancy(usps) ==
    IF usps.vacant # "TRUE" THEN [flag |-> FALSE, confidence |-> 0]
    ELSE LET c == IF usps.dpv_confirmed = "TRUE" THEN 90 ELSE 75
         IN  [flag |-> TRUE,
              confidence |-> IF usps.address_mismatch THEN Min(c, 70) ELSE c]

\* the DB-ready dict of check_single_parcel (and of the API's single check)
check_single_parcel(p, resp) ==
    LET result == check_address(resp)
        flag   == evaluate_usps_vacancy(result)
    IN  [parcel_id             |-> p,
         usps_vacant           |-> result.vacant,
         usps_dpv_confirmed    |-> result.dpv_confirmed,
         usps_address_mismatch |-> IF result.address_mismatch THEN "TRUE" ELSE "FALSE",
         usps_error            |-> result.error,
         flag_vacancy          |-> flag.flag,
         vacancy_confidence    |-> flag.confidence]

\* ------------------------------------------------- analysis/flags.py
\* a collector output that is None
Absent == [absent |-> TRUE]

absent(x) == "absent" \in DOMAIN x

\* thresholds of flags.py (NDVI scaled by 100)
NDVI_NEGLECT_MIN == 10
NDVI_NEGLECT_MAX == 30
NDVI_OVERGROWTH_MODERATE == 50
NDVI_OVERGROWTH_STRONG == 65
NDVI_OVERGROWTH_CHANGE == 15
NDVI_DROP_THRESHOLD == 20

\* a guard that lets an output with errors through
usable_despite_errors(x) == ~absent(x)

\* "if sentinel and not sentinel.get('errors')" and the like
usable(x) == ~absent(x) /\ ~x.errors

\* evaluate_vegetation_overgrowth: result["flag"]
evaluate_vegetation_overgrowth(naip, sentinel) ==
    LET naip_flag ==
            /\ usable(naip)
            /\ naip.current_ndvi # Null
            /\ IF naip.current_ndvi > NDVI_OVERGROWTH_STRONG
               THEN \/ naip.mean_historical_ndvi = Null
                    \/ naip.current_ndvi >
                         naip.mean_historical_ndvi + NDVI_OVERGROWTH_CHANGE
               ELSE /\ naip.current_ndvi > NDVI_OVERGROWTH_MODERATE
                    /\ naip.mean_historical_ndvi # Null
                    /\ naip.current_ndvi >
                         naip.mean_historical_ndvi + NDVI_OVERGROWTH_CHANGE
        sentinel_flag ==
            /\ usable(sentinel)
            /\ sentinel.trend_direction = "increasing"
            /\ sentinel.trend_slope # Null
            /\ sentinel.latest_ndvi # Null
            /\ sentinel.latest_ndvi # 0
            /\ sentinel.latest_ndvi > NDVI_OVERGROWTH_MODERATE
    IN  naip_flag \/ sentinel_flag

\* evaluate_vegetation_neglect: result["flag"] (fema only boosts confidence)
evaluate_vegetation_neglect(naip, fema) ==
    /\ usable(naip)
    /\ naip.current_ndvi # Null
    /\ NDVI_NEGLECT_MIN <= naip.current_ndvi
    /\ naip.current_ndvi <= NDVI_NEGLECT_MAX

\* evaluate_flood_risk: result["flag"]
evaluate_flood_risk(fema) ==
    /\ usable(fema)
    /\ \/ fema.risk_level = "high"
       \/ fema.is_sfha
       \/ fema.risk_level = "moderate"

\* evaluate_structural_change: result["flag"]
evaluate_structural_change(naip, sentinel) ==
    LET naip_flag ==
            /\ usable(naip)
            /\ naip.current_ndvi # Null
            /\ naip.mean_historical_ndvi # Null
            /\ naip.mean_historical_ndvi - naip.current_ndvi > NDVI_DROP_THRESHOLD
        sentinel_flag ==
            /\ usable(sentinel)
            /\ sentinel.trend_direction = "decreasing"
            /\ sentinel.trend_slope # Null
            /\ sentinel.earliest_ndvi # Null /\ sentinel.earliest_ndvi # 0
            /\ sentinel.latest_ndvi # Null /\ sentinel.latest_ndvi # 0
            /\ sentinel.earliest_ndvi - sentinel.latest_ndvi > NDVI_DROP_THRESHOLD
    IN  naip_flag \/ sentinel_flag

\* generate_all_flags: the signal codes of the evaluators that fired
generate_all_flags(naip, sentinel, fema, usps) ==
    {c \in {"vegetation_overgrowth", "vegetation_neglect", "flood_risk",
            "structural_change", "usps_vacancy"} :
       CASE c = "vegetation_overgrowth" -> evaluate_vegetation_overgrowth(naip, sentinel)
         [] c = "vegetation_neglect"    -> evaluate_vegetation_neglect(naip, fema)
         [] c = "flood_risk"            -> evaluate_flood_risk(fema)
         [] c = "structural_change"     -> evaluate_structural_change(naip, sentinel)
         [] c = "usps_vacancy"          -> ~absent(usps) /\ evaluate_usps_vacancy(usps).flag}

\* ------------------------------------------------ pass 1: scan_single_parcel
\* naip_ndvi_fast's category bands (NDVI scaled by 100)
ndvi_category(ndvi) ==
    IF ndvi = Null THEN "no_data"
    ELSE IF ndvi < 10 THEN "bare"
    ELSE IF ndvi < 30 THEN "minimal"
    ELSE IF ndvi < 50 THEN "sparse"
    ELSE IF ndvi < 65 THEN "moderate"
    ELSE "dense"

\* what the aerial collector can return for a point: no NDVI, or one of these
NdviReadings == {Null, 60}

\* what the imagery identify endpoint can do: answer with the four bands
\* (NDVI scaled by 100), answer without a near-infrared band, or fail with a
\* requests.RequestException (5xx, 429, timeout, DNS)
NaipResponses ==
    { [kind |-> "ok", ndvi |-> n] : n \in NdviReadings \ {Null} } \cup
    { [kind |-> k, ndvi |-> Null] :
        k \in {"no_nir", "http_503", "http_429", "timeout", "dns"} }

\* the failures the pipeline calls transient
TransientKinds == {"http_503", "http_429", "timeout", "dns"}

\* NAIPClient.compute_ndvi_at_point: a RequestException of identify becomes
\* ndvi None with error "identify_failed: ..", three bands "no_nir_band"
compute_ndvi_at_point(resp) ==
    IF resp.kind \in TransientKinds
    THEN [ndvi |-> Null, error |-> "identify_failed"]
    ELSE IF resp.kind = "no_nir"
    THEN [ndvi |-> Null, error |-> "no_nir_band"]
    ELSE [ndvi |-> resp.ndvi, error |-> NULL]

\* naip_ndvi_fast: the NDVI, its category and the collector's error
naip_ndvi_fast(resp) ==
    LET result == compute_ndvi_at_point(resp)
    IN  [ndvi     |-> result.ndvi,
         category |-> ndvi_category(result.ndvi),
         error    |-> result.error]

\* "if shutdown_event.is_set(): return None" at the top of a task
returns_none_on_shutdown(shutdown) == shutdown

\* what fema_flood returns for a point: the zone found, or the empty result
\* of a failed query (flood_zone None, risk_level "unknown", is_sfha False,
\* errors non-empty)
FloodAnswers ==
    { [flood_zone |-> "AE", risk_level |-> "high", is_sfha |-> TRUE,
       errors |-> FALSE],
      [flood_zone |-> NULL, risk_level |-> "unknown", is_sfha |-> FALSE,
       errors |-> TRUE] }

\* "naip_for_flags": the dict the evaluators expect, None without an NDVI
naip_for_flags(naip) ==
    IF naip.ndvi # Null
    THEN [current_ndvi |-> naip.ndvi, mean_historical_ndvi |-> Null,
          errors |-> naip.error # NULL]
    ELSE Absent

\* the DB-ready dict of scan_single_parcel: resp is what the imagery
\* endpoint did, fema what fema_flood returned (Absent when it raised),
\* raised whether the try block raised (the except branch returns the
\* minimal row)
scan_single_parcel(p, resp, fema, raised, t) ==
    LET naip  == naip_ndvi_fast(resp)
        flags == generate_all_flags(naip_for_flags(naip), Absent, fema, Absent)
    IN
    IF raised
    THEN [parcel_id |-> p, ndvi_score |-> Null, ndvi_date |-> Null,
          ndvi_category |-> "error",
          fema_zone |-> NULL, fema_risk |-> NULL, fema_sfha |-> "FALSE",
          scan_date |-> t, scan_pass |-> 1,
          sentinel_worthy |-> FALSE]
    ELSE [parcel_id |-> p, ndvi_score |-> naip.ndvi,
          ndvi_date |-> IF naip.ndvi = Null THEN Null ELSE t,
          ndvi_category |-> naip.category,
          fema_zone |-> IF absent(fema) THEN NULL ELSE fema.flood_zone,
          fema_risk |-> IF absent(fema) THEN NULL ELSE fema.risk_level,
          fema_sfha |-> IF ~absent(fema) /\ fema.is_sfha THEN "TRUE" ELSE "FALSE",
          scan_date |-> t,
          scan_pass |-> 1,
          sentinel_worthy |-> ((naip.ndvi # Null /\ naip.ndvi > 50) \/ flags # {})]

\* ------------------------------------------------------ shape-A run: futures
NoResult == [parcel_id |-> 0]

NotSubmitted == [state |-> "none", result |-> NoResult]

Submitted(fs) == {p \in Parcels : fs[p].state # "none"}
Done(fs)      == {p \in Parcels : fs[p].state = "done"}
Running(fs)   == {p \in Parcels : fs[p].state = "running"}
Pending(fs)   == {p \in Parcels : fs[p].state = "pending"}

\* position of p in the work list
Pos(p) == CHOOSE i \in 1..Len(parcels) : parcels[i] = p

\* the executor's work queue is FIFO: the pending future submitted first
NextPending(fs) ==
    CHOOSE p \in Pending(fs) : \A q \in Pending(fs) : Pos(p) <= Pos(q)

Ids(rows) == {rows[i].parcel_id : i \in 1..Len(rows)}

Reverse(s) == [i \in 1..Len(s) |-> s[Len(s) + 1 - i]]

\* an except branch that drops the batch
extendleft_nothing(buf, batch) == buf

\* deque.extendleft(batch): each item pushed on the left, so batch lands reversed
extendleft(buf, batch) == Reverse(batch) \o buf

RECURSIVE AppendResults(_, _, _)
\* "for f in futures: if id(f) in collected: continue;
\*  if f.done() and not f.cancelled(): result = f.result(); if result: append"
AppendResults(buf, fs, order) ==
    IF order = <<>> THEN buf
    ELSE LET p == Head(order)
             take == /\ p \notin collected
                     /\ fs[p].state = "done"
                     /\ fs[p].result # NoResult
         IN  AppendResults(IF take THEN Append(buf, fs[p].result) ELSE buf,
                           fs, Tail(order))

\* the futures dict in insertion order: the submitted prefix of the work list
FuturesOrder(fs) == SelectSeq(parcels, LAMBDA p : fs[p].state # "none")


\* ------------------------------------------------------- pass 1: the run
\* batch_ndvi_scan.py main(): "idle" (not started), "submit" (the submit
\* loop), "collect" (the as_completed loop), "exit" (leaving the with block:
\* executor.__exit__ waits for the pool), "drain" (collect what the loop
\* missed), "final" (the final flush), "done" (returned), "dead" (the
\* process was killed or crashed).
Active == {"submit", "collect", "exit", "drain", "final"}

\* flush_buffer(dry_run) of batch_ndvi_scan.py, as main() calls it on buffer
\* buf. k is how many chunks the store committed before the update raised
\* (k = NumChunks: no failure; get_db_connection raising is k = 0).
\* Gives the buffer and the store afterwards and what the flush drained.
flush_buffer(buf, store, dry, k) ==
    IF buf = <<>>
    THEN [buffer |-> buf, store |-> store, batch |-> <<>>, written |-> <<>>]
    ELSE IF dry
    THEN [buffer |-> <<>>, store |-> store, batch |-> buf, written |-> <<>>]
    ELSE IF k = NumChunks(buf)
    THEN [buffer |-> <<>>,
          store  |-> batch_update_scan_results(store, buf, k),
          batch  |-> buf, written |-> buf]
    ELSE [buffer |-> extendleft(<<>>, buf),
          store  |-> batch_update_scan_results(store, buf, k),
          batch  |-> buf, written |-> FirstChunks(buf, k)]

\* main() up to the executor: load the work list (a new process: empty
\* buffer, shutdown flag clear)
Load ==
    /\ pc \in {"idle", "done", "dead"}
    /\ runs < MaxRuns
    /\ runs' = runs + 1
    /\ \E d \in BOOLEAN : dry_run' = d
    /\ parcels' = get_unscanned_parcels(gis_parcels_core, limit)
    /\ pc' = IF parcels' = <<>> THEN "done" ELSE "submit"
    /\ futures' = [p \in Parcels |-> NotSubmitted]
    /\ collected' = {}
    /\ results_buffer' = <<>>
    /\ shutdown_event' = FALSE
    /\ completed' = {}
    /\ drained' = {}
    /\ late_calls' = {}
    /\ UNCHANGED <<uspsVars, gis_parcels_core, now, limit, committed>>

\* "for parcel in parcels: if shutdown_event.is_set(): break;
\*  future = executor.submit(scan_single_parcel, parcel)"
SubmitOne ==
    /\ pc = "submit"
    /\ ~shutdown_event
    /\ LET n == Cardinality(Submitted(futures)) + 1
       IN  /\ futures' = [futures EXCEPT ![parcels[n]].state = "pending"]
           /\ pc' = IF n = Len(parcels) THEN "collect" ELSE "submit"
    /\ UNCHANGED <<uspsVars, gis_parcels_core, now, runs, limit, parcels, collected,
                   results_buffer, shutdown_event, dry_run, committed,
                   completed, drained, late_calls>>

SubmitBreak ==
    /\ pc = "submit"
    /\ shutdown_event
    /\ pc' = "collect"
    /\ UNCHANGED <<uspsVars, gis_parcels_core, now, runs, limit, parcels, futures,
                   collected, results_buffer, shutdown_event, dry_run,
                   committed, completed, drained, late_calls>>

\* a pool thread takes the next queued task and enters scan_single_parcel:
\* with the flag set it returns None at once, otherwise it calls the collectors
WorkerStart ==
    /\ pc \in Active
    /\ Pending(futures) # {}
    /\ Cardinality(Running(futures)) < MaxWorkers
    /\ LET p == NextPending(futures)
       IN  IF returns_none_on_shutdown(shutdown_event)
           THEN /\ futures' = [futures EXCEPT ![p].state = "done"]
                /\ UNCHANGED late_calls
           ELSE /\ futures' = [futures EXCEPT ![p].state = "running"]
                /\ late_calls' = IF shutdown_event THEN late_calls \cup {p}
                                                   ELSE late_calls
    /\ UNCHANGED <<uspsVars, gis_parcels_core, now, pc, runs, limit, parcels, collected,
                   results_buffer, shutdown_event, dry_run, committed,
                   completed, drained>>

\* the collectors return and scan_single_parcel returns its row (the flood
\* lookups of these runs fail: the flood columns play no part in a run's
\* control flow, and the store-level specification varies them)
WorkerFinish(p) ==
    /\ pc \in Active
    /\ futures[p].state = "running"
    /\ \E result \in { scan_single_parcel(p, resp, fema, raised, now) :
                          resp \in NaipResponses,
                          fema \in {f \in FloodAnswers : f.errors},
                          raised \in BOOLEAN } :
         futures' = [futures EXCEPT ![p] = [state |-> "done", result |-> result]]
    /\ completed' = completed \cup {p}
    /\ UNCHANGED <<uspsVars, gis_parcels_core, now, pc, runs, limit, parcels, collected,
                   results_buffer, shutdown_event, dry_run, committed,
                   drained, late_calls>>

\* one iteration of "for future in as_completed(futures)" with the flag clear:
\* collect the future, append its result, flush at the threshold
CollectOne(p) ==
    /\ pc = "collect"
    /\ ~shutdown_event
    /\ futures[p].state = "done"
    /\ p \notin collected
    /\ collected' = collected \cup {p}
    /\ LET r   == futures[p].result
           buf == IF r # NoResult THEN Append(results_buffer, r)
                                  ELSE results_buffer
       IN  IF r # NoResult /\ Len(buf) >= FlushEvery
           THEN \E k \in 0..NumChunks(buf) :
                  LET f == flush_buffer(buf, gis_parcels_core, dry_run, k)
                  IN  /\ results_buffer' = f.buffer
                      /\ gis_parcels_core' = f.store
                      /\ committed' = committed \cup Ids(f.written)
                      /\ drained' = drained \cup Ids(f.batch)
           ELSE /\ results_buffer' = buf
                /\ UNCHANGED <<gis_parcels_core, committed, drained>>
    /\ UNCHANGED <<uspsVars, now, pc, runs, limit, parcels, futures, shutdown_event,
                   dry_run, completed, late_calls>>

\* as_completed yields a future and the flag is set: break, before
\* "collected.add(id(future))"
CollectBreak ==
    /\ pc = "collect"
    /\ shutdown_event
    /\ Done(futures) \ collected # {}
    /\ pc' = "exit"
    /\ UNCHANGED <<uspsVars, gis_parcels_core, now, runs, limit, parcels, futures,
                   collected, results_buffer, shutdown_event, dry_run,
                   committed, completed, drained, late_calls>>

\* as_completed has yielded every future
CollectEnd ==
    /\ pc = "collect"
    /\ Submitted(futures) \subseteq collected
    /\ pc' = "exit"
    /\ UNCHANGED <<uspsVars, gis_parcels_core, now, runs, limit, parcels, futures,
                   collected, results_buffer, shutdown_event, dry_run,
                   committed, completed, drained, late_calls>>

\* the end of "with ThreadPoolExecutor(...)": shutdown(wait=True) returns once
\* no task is queued or running
ExecutorExit ==
    /\ pc = "exit"
    /\ Pending(futures) = {}
    /\ Running(futures) = {}
    /\ pc' = "drain"
    /\ UNCHANGED <<uspsVars, gis_parcels_core, now, runs, limit, parcels, futures,
                   collected, results_buffer, shutdown_event, dry_run,
                   committed, completed, drained, late_calls>>

\* a shutdown path that forgets the futures the loop did not collect
drain_nothing(buf, fs, shutdown) == buf

\* "if shutdown_event.is_set(): for f in futures: ..." after the with block
drain_uncollected(buf, fs, shutdown) ==
    IF shutdown THEN AppendResults(buf, fs, FuturesOrder(fs)) ELSE buf

Drain ==
    /\ pc = "drain"
    /\ results_buffer' = drain_uncollected(results_buffer, futures, shutdown_event)
    /\ pc' = "final"
    /\ UNCHANGED <<uspsVars, gis_parcels_core, now, runs, limit, parcels, futures,
                   collected, shutdown_event, dry_run, committed, completed,
                   drained, late_calls>>

\* "flush_buffer(dry_run=args.dry_run)" after the loops, then main() returns
FinalFlush ==
    /\ pc = "final"
    /\ \E k \in 0..NumChunks(results_buffer) :
         LET f == flush_buffer(results_buffer, gis_parcels_core, dry_run, k)
         IN  /\ results_buffer' = f.buffer
             /\ gis_parcels_core' = f.store
             /\ committed' = committed \cup Ids(f.written)
             /\ drained' = drained \cup Ids(f.batch)
    /\ pc' = "done"
    /\ futures' = [p \in Parcels |-> NotSubmitted]
    /\ UNCHANGED <<uspsVars, now, runs, limit, parcels, collected,
                   shutdown_event, dry_run, completed, late_calls>>

\* SIGINT: handle_sigint sets the flag
Interrupt ==
    /\ pc \in Active
    /\ ~shutdown_event
    /\ shutdown_event' = TRUE
    /\ UNCHANGED <<uspsVars, gis_parcels_core, now, pc, runs, limit, parcels, futures,
                   collected, results_buffer, dry_run, committed, completed,
                   drained, late_calls>>

\* the process dies (kill -9, power loss, an uncaught error): memory is gone
Crash ==
    /\ pc \in Active
    /\ pc' = "dead"
    /\ results_buffer' = <<>>
    /\ futures' = [p \in Parcels |-> NotSubmitted]
    /\ collected' = {}
    /\ UNCHANGED <<uspsVars, gis_parcels_core, now, runs, limit, parcels,
                   shutdown_event, dry_run, committed, completed, drained,
                   late_calls>>

\* GET /enrich_sentinel?parcel_id=..&county=..: the API enriches one parcel
\* of the table and persists the row, whatever passes the parcel has been through
api_enrich_sentinel(p) ==
    /\ gis_parcels_core[p].sentinel_scan_date = Null
    /\ gis_parcels_core' = batch_update_sentinel_results(
            gis_parcels_core, <<rescore_with_sentinel(p, now)>>, 1)
    /\ UNCHANGED <<uspsVars, now, runVars>>

\* one run of the trend pass (batch_sentinel_enrich.py) over the parcels
\* get_sentinel_worthy_parcels returns: every row goes through the buffer to
\* batch_update_sentinel_results
batch_sentinel_enrich ==
    /\ get_sentinel_worthy_parcels(gis_parcels_core) # {}
    /\ LET rows == [i \in 1..Cardinality(get_sentinel_worthy_parcels(gis_parcels_core)) |->
                     rescore_with_sentinel(
                        SortBy(get_sentinel_worthy_parcels(gis_parcels_core), md5)[i], now)]
       IN  gis_parcels_core' =
              batch_update_sentinel_results(gis_parcels_core, rows, NumChunks(rows))
    /\ UNCHANGED <<uspsVars, now, runVars>>

Limits == {0, 2}

InitPass1 ==
    /\ gis_parcels_core \in [Parcels -> {BlankRow(1, "12 OAK ST", NoFema, Null)}]
    /\ now = 1
    /\ pc = "idle"
    /\ runs = 0
    /\ limit \in Limits
    /\ parcels = <<>>
    /\ futures = [p \in Parcels |-> NotSubmitted]
    /\ collected = {}
    /\ results_buffer = <<>>
    /\ shutdown_event = FALSE
    /\ dry_run = FALSE
    /\ committed = {}
    /\ completed = {}
    /\ drained = {}
    /\ late_calls = {}
    /\ UspsIdle

NextPass1 ==
    \/ Load
    \/ SubmitOne
    \/ SubmitBreak
    \/ WorkerStart
    \/ \E p \in Parcels : WorkerFinish(p)
    \/ \E p \in Parcels : CollectOne(p)
    \/ CollectBreak
    \/ CollectEnd
    \/ ExecutorExit
    \/ Drain
    \/ FinalFlush
    \/ Interrupt
    \/ Crash
    \/ \E p \in Parcels : api_enrich_sentinel(p)
    \/ batch_sentinel_enrich

SpecPass1 == InitPass1 /\ [][NextPass1]_vars


\* ---------------------------------------------------- pass 1: properties
ScanPassOf(store, p) == COALESCE(store[p].scan_pass, 0)

\* C1: for every parcel and every update of the store by the pass-1 writer or
\* the trend-pass writer, scan_pass after the update is greater than or equal
\* to scan_pass before it (NULL counting as the lowest level).
C1_ScanPassNeverDecreases ==
    [][\A p \in Parcels :
         ScanPassOf(gis_parcels_core', p) >= ScanPassOf(gis_parcels_core, p)]_vars

\* C6: pass 1 is resumable. Every parcel whose row a flush committed has
\* scan_date set and is not returned by get_unscanned_parcels, with or without
\* the run's --limit; and once a run has stopped (returned or died), every
\* parcel it loaded whose row was not committed is returned by
\* get_unscanned_parcels called as the next run calls it.
C6_Pass1Resumable ==
    /\ \A p \in committed :
         /\ gis_parcels_core[p].scan_date # Null
         /\ p \notin Range(get_unscanned_parcels(gis_parcels_core, limit))
         /\ p \notin Range(get_unscanned_parcels(gis_parcels_core, 0))
    /\ pc \in {"done", "dead"} =>
         \A p \in Range(parcels) \ committed :
            p \in Range(get_unscanned_parcels(gis_parcels_core, limit))

\* a run died with one loaded parcel committed and another one not
C6_Witness ==
    /\ pc = "dead"
    /\ Range(parcels) \cap committed # {}
    /\ Range(parcels) \ committed # {}

\* C8: in pass 1 no task calls a collector once the shutdown flag is set
\* unless it had started before; when main() is past the with block no task is
\* queued or running; and when an interrupted run returns, every result a
\* task returned was in the batch of one of the run's flushes.
C8_Pass1ShutdownDrains ==
    /\ late_calls = {}
    /\ pc \in {"drain", "final"} => Pending(futures) \cup Running(futures) = {}
    /\ (pc = "done" /\ shutdown_event) => completed \subseteq drained

\* an interrupted run returned, and a result the as_completed loop had not
\* collected was picked up after the pool shut down
C8_Witness ==
    /\ pc = "done"
    /\ shutdown_event
    /\ completed \ collected # {}
    /\ completed \subseteq drained


\* ------------------------------------------- slope pass: compute_slope_for_parcel
\* HISTORICAL_YEARS
HISTORICAL_YEARS == <<2022, 2020, 2018, 2016, 2014, 2012>>

\* what naip_ndvi_historical can return for a point: a reading for some of
\* the years asked for (NDVI scaled by 100)
HistoricalReadings ==
    { <<>>,
      <<[year |-> 2022, ndvi |-> 55]>>,
      <<[year |-> 2020, ndvi |-> 40]>>,
      <<[year |-> 2022, ndvi |-> 55], [year |-> 2020, ndvi |-> 40]>> }

\* int(current_date[:4]) of a scan date kept in days
YearOf(date) == 2022 + date \div 365

RECURSIVE Sum(_)
Sum(s) == IF s = <<>> THEN 0 ELSE Head(s) + Sum(Tail(s))

\* compute_ndvi_slope(points): None under 2 points, 0.0 when every point has
\* the same year, else the least-squares slope (here in hundredths of NDVI
\* per year, rounded down)
compute_ndvi_slope(points) ==
    IF Len(points) < 2 THEN Null
    ELSE LET n      == Len(points)
             sum_x  == Sum([i \in 1..n |-> points[i].year])
             sum_y  == Sum([i \in 1..n |-> points[i].ndvi])
             sum_xy == Sum([i \in 1..n |-> points[i].year * points[i].ndvi])
             sum_x2 == Sum([i \in 1..n |-> points[i].year * points[i].year])
             denom  == n * sum_x2 - sum_x * sum_x
         IN  IF denom = 0 THEN 0
             ELSE (n * sum_xy - sum_x * sum_y) \div denom

\* the regression points of compute_slope_for_parcel: the historical readings
\* plus the parcel's current NDVI when it has a date whose year is not among
\* the historical years
slope_points(row, historical) ==
    IF /\ row.ndvi_score # Null
       /\ row.ndvi_date # Null
       /\ \A i \in 1..Len(historical) : historical[i].year # YearOf(row.ndvi_date)
    THEN Append(historical, [year |-> YearOf(row.ndvi_date), ndvi |-> row.ndvi_score])
    ELSE historical

\* the DB-ready dict of compute_slope_for_parcel (raised: the try block
\* raised and the function returned None)
compute_slope_for_parcel(p, row, historical, raised) ==
    IF raised THEN NoResult
    ELSE LET points == slope_points(row, historical)
             years  == {points[i].year : i \in 1..Len(points)}
         IN  [parcel_id          |-> p,
              ndvi_slope_5yr     |-> compute_ndvi_slope(points),
              ndvi_history_count |-> Len(points),
              ndvi_history_years |-> IF years = {} THEN NULL
                                     ELSE SortBy(years, [y \in years |-> y])]

\* ------------------------------------------------------ slope pass: the run
\* flush_buffer(dry_run) of batch_historical_slope.py (k as in flush_buffer)
slope_flush_buffer(buf, store, dry, k) ==
    IF buf = <<>>
    THEN [buffer |-> buf, store |-> store, batch |-> <<>>, written |-> <<>>]
    ELSE IF dry
    THEN [buffer |-> <<>>, store |-> store, batch |-> buf, written |-> <<>>]
    ELSE IF k = NumChunks(buf)
    THEN [buffer |-> <<>>,
          store  |-> batch_update_slope_results(store, buf, k),
          batch  |-> buf, written |-> buf]
    ELSE [buffer |-> extendleft(<<>>, buf),
          store  |-> batch_update_slope_results(store, buf, k),
          batch  |-> buf, written |-> FirstChunks(buf, k)]

\* main() of batch_historical_slope.py up to the executor. With
\* --composite-only it recomputes the composite scores and returns, without
\* looking at --dry-run. With nothing to do it computes the composite scores
\* (unless --dry-run) and returns.
SlopeLoad ==
    /\ pc \in {"idle", "done", "dead"}
    /\ runs < MaxRuns
    /\ runs' = runs + 1
    /\ \E d \in BOOLEAN : dry_run' = d
    /\ \E composite_only \in BOOLEAN :
         /\ parcels' = IF composite_only THEN <<>>
                       ELSE get_parcels_needing_slope(gis_parcels_core, limit)
         /\ gis_parcels_core' =
               IF composite_only \/ (parcels' = <<>> /\ ~dry_run')
               THEN compute_composite_scores(gis_parcels_core)
               ELSE gis_parcels_core
    /\ pc' = IF parcels' = <<>> THEN "done" ELSE "submit"
    /\ futures' = [p \in Parcels |-> NotSubmitted]
    /\ collected' = {}
    /\ results_buffer' = <<>>
    /\ shutdown_event' = FALSE
    /\ completed' = {}
    /\ drained' = {}
    /\ late_calls' = {}
    /\ UNCHANGED <<uspsVars, now, limit, committed>>

\* naip_ndvi_historical returns and compute_slope_for_parcel returns its dict
\* (or None when the try block raised)
SlopeWorkerFinish(p) ==
    /\ pc \in Active
    /\ futures[p].state = "running"
    /\ \E historical \in HistoricalReadings, raised \in BOOLEAN :
         /\ futures' = [futures EXCEPT ![p] =
               [state |-> "done",
                result |-> compute_slope_for_parcel(p, gis_parcels_core[p],
                                                    historical, raised)]]
         /\ completed' = IF raised THEN completed ELSE completed \cup {p}
    /\ UNCHANGED <<uspsVars, gis_parcels_core, now, pc, runs, limit, parcels, collected,
                   results_buffer, shutdown_event, dry_run, committed,
                   drained, late_calls>>

\* one iteration of the as_completed loop with the flag clear
SlopeCollectOne(p) ==
    /\ pc = "collect"
    /\ ~shutdown_event
    /\ futures[p].state = "done"
    /\ p \notin collected
    /\ collected' = collected \cup {p}
    /\ LET r   == futures[p].result
           buf == IF r # NoResult THEN Append(results_buffer, r)
                                  ELSE results_buffer
       IN  IF r # NoResult /\ Len(buf) >= FlushEvery
           THEN \E k \in 0..NumChunks(buf) :
                  LET f == slope_flush_buffer(buf, gis_parcels_core, dry_run, k)
                  IN  /\ results_buffer' = f.buffer
                      /\ gis_parcels_core' = f.store
                      /\ committed' = committed \cup Ids(f.written)
                      /\ drained' = drained \cup Ids(f.batch)
           ELSE /\ results_buffer' = buf
                /\ UNCHANGED <<gis_parcels_core, committed, drained>>
    /\ UNCHANGED <<uspsVars, now, pc, runs, limit, parcels, futures, shutdown_event,
                   dry_run, completed, late_calls>>

\* as_completed yields a future and the flag is set: break
SlopeCollectBreak ==
    /\ pc = "collect"
    /\ shutdown_event
    /\ Done(futures) \ collected # {}
    /\ pc' = "drain"
    /\ UNCHANGED <<uspsVars, gis_parcels_core, now, runs, limit, parcels, futures,
                   collected, results_buffer, shutdown_event, dry_run,
                   committed, completed, drained, late_calls>>

\* as_completed has yielded every future
SlopeCollectEnd ==
    /\ pc = "collect"
    /\ Submitted(futures) \subseteq collected
    /\ pc' = "drain"
    /\ UNCHANGED <<uspsVars, gis_parcels_core, now, runs, limit, parcels, futures,
                   collected, results_buffer, shutdown_event, dry_run,
                   committed, completed, drained, late_calls>>

\* "# Drain on shutdown": the loop over futures, still inside the with block,
\* so before the executor has waited for its tasks; it takes the futures
\* that are done at this moment
SlopeDrain ==
    /\ pc = "drain"
    /\ results_buffer' = drain_uncollected(results_buffer, futures, shutdown_event)
    /\ pc' = "exit"
    /\ UNCHANGED <<uspsVars, gis_parcels_core, now, runs, limit, parcels, futures,
                   collected, shutdown_event, dry_run, committed, completed,
                   drained, late_calls>>

\* the end of the with block: shutdown(wait=True) returns once no task is
\* queued or running
SlopeExecutorExit ==
    /\ pc = "exit"
    /\ Pending(futures) = {}
    /\ Running(futures) = {}
    /\ pc' = "final"
    /\ UNCHANGED <<uspsVars, gis_parcels_core, now, runs, limit, parcels, futures,
                   collected, results_buffer, shutdown_event, dry_run,
                   committed, completed, drained, late_calls>>

\* "# Final flush", then "# Step 2: Compute composite scores" unless
\* --dry-run or shutdown, then main() returns
SlopeFinalFlush ==
    /\ pc = "final"
    /\ \E k \in 0..NumChunks(results_buffer) :
         LET f == slope_flush_buffer(results_buffer, gis_parcels_core, dry_run, k)
         IN  /\ results_buffer' = f.buffer
             /\ gis_parcels_core' = IF ~dry_run /\ ~shutdown_event
                                    THEN compute_composite_scores(f.store)
                                    ELSE f.store
             /\ committed' = committed \cup Ids(f.written)
             /\ drained' = drained \cup Ids(f.batch)
    /\ pc' = "done"
    /\ futures' = [p \in Parcels |-> NotSubmitted]
    /\ UNCHANGED <<uspsVars, now, runs, limit, parcels, collected,
                   shutdown_event, dry_run, completed, late_calls>>

\* rows as pass 1 left them: an NDVI score, with or without a date
ScannedRow(date) ==
    [BlankRow(1, "12 OAK ST", NoFema, Null) EXCEPT
        !.ndvi_score = 60, !.ndvi_date = date, !.ndvi_category = "moderate",
        !.scan_date = 1, !.scan_pass = 1, !.sentinel_worthy = TRUE]

InitSlope ==
    /\ gis_parcels_core \in [Parcels -> {ScannedRow(1), ScannedRow(Null)}]
    /\ now = 1
    /\ pc = "idle"
    /\ runs = 0
    /\ limit \in Limits
    /\ parcels = <<>>
    /\ futures = [p \in Parcels |-> NotSubmitted]
    /\ collected = {}
    /\ results_buffer = <<>>
    /\ shutdown_event = FALSE
    /\ dry_run = FALSE
    /\ committed = {}
    /\ completed = {}
    /\ drained = {}
    /\ late_calls = {}
    /\ UspsIdle

NextSlope ==
    \/ SlopeLoad
    \/ SubmitOne
    \/ SubmitBreak
    \/ WorkerStart
    \/ \E p \in Parcels : SlopeWorkerFinish(p)
    \/ \E p \in Parcels : SlopeCollectOne(p)
    \/ SlopeCollectBreak
    \/ SlopeCollectEnd
    \/ SlopeDrain
    \/ SlopeExecutorExit
    \/ SlopeFinalFlush
    \/ Interrupt
    \/ Crash

SpecSlope == InitSlope /\ [][NextSlope]_vars

\* ------------------------------------------------- slope pass: properties
\* C7: re-running the slope pass does not re-select a parcel whose slope row
\* a flush committed, whatever slope value was computed for it: every such
\* parcel is absent from get_parcels_needing_slope.
C7_SlopeNotReselected ==
    \A p \in committed :
        p \notin Range(get_parcels_needing_slope(gis_parcels_core, 0))

\* C9: in the slope pass, after an interrupt, the in-flight computations run
\* to completion before the final flush, and every result a computation
\* returned is in a batch drained by a flush when the run returns.
C9_SlopeShutdownDrains ==
    /\ pc \in {"final", "done"} => Pending(futures) \cup Running(futures) = {}
    /\ (pc = "done" /\ shutdown_event) => completed \subseteq drained



\* C17: in dry-run mode the pass modifies no parcel row: no step of a run
\* started with --dry-run (its start included) changes gis_parcels_core,
\* on any path.
C17_DryRunWritesNothing ==
    [][dry_run' => gis_parcels_core' = gis_parcels_core]_vars

\* ------------------------------------------------ vacancy pass: store writes
\* The vacancy columns of the store under every writer: the batch run's
\* flushes and journal replays (batch_update_usps_results) and the API's
\* single check (update_parcel_usps), with the store's clock moving on.
MaxNow == 63

\* the clock moves by a little over half a cache period
ClockSteps == {cache_days \div 2 + 1}

\* --limit of the vacancy runs: none, or one lead per run
UspsLimits == {0, 1}

\* the leads the composite pass left: at or above --min-composite, or below it
LeadRows ==
    { BlankRow(1, "12 OAK ST", NoFema, 900),
      BlankRow(1, "7 ELM AVE", NoFema, 800),
      BlankRow(1, "3 ASH CT", NoFema, 650) }

\* no shape-A run is in progress
RunIdle ==
    /\ pc = "idle"
    /\ runs = 0
    /\ parcels = <<>>
    /\ futures = [p \in Parcels |-> NotSubmitted]
    /\ collected = {}
    /\ results_buffer = <<>>
    /\ shutdown_event = FALSE
    /\ dry_run = FALSE
    /\ committed = {}
    /\ completed = {}
    /\ drained = {}
    /\ late_calls = {}

Tick ==
    /\ \E d \in ClockSteps :
         /\ now + d <= MaxNow
         /\ now' = now + d
    /\ usps_batch' = <<>>
    /\ UNCHANGED <<gis_parcels_core, usps_loaded, usps_rate_limited, vacancyRunVars,
                   runVars>>

\* a vacancy run starts (whatever became of the one before): main() loads
\* its work list with get_parcels_needing_usps(limit, min_composite, cache_days)
UspsLoad ==
    /\ usps_loaded' = Range(get_parcels_needing_usps(gis_parcels_core, now, limit,
                                                     min_composite, cache_days))
    /\ usps_loaded' # usps_loaded
    /\ usps_batch' = <<>>
    /\ UNCHANGED <<gis_parcels_core, now, usps_rate_limited, vacancyRunVars,
                   runVars>>

\* a flush of the run calls batch_update_usps_results with the results of
\* checks of parcels of its work list; it raises (the rows stay buffered) or
\* commits
UspsBatchWrite ==
    /\ \E S \in SUBSET usps_loaded \ {{}} :
         LET order == SortBy(S, [p \in S |-> p])
             results(resp) == [i \in 1..Len(order) |->
                                 check_single_parcel(order[i], resp[order[i]])]
         IN  \/ /\ gis_parcels_core' =
                      batch_update_usps_results(gis_parcels_core, <<>>, now, TRUE)
                /\ usps_batch' = <<>>
                /\ UNCHANGED <<usps_loaded, usps_rate_limited>>
             \/ \E resp \in [S -> UspsResponses] :
                  /\ gis_parcels_core' =
                        batch_update_usps_results(gis_parcels_core, results(resp),
                                                  now, FALSE)
                  /\ usps_batch' = results(resp)
                  /\ usps_loaded' = usps_loaded \ S
                  /\ usps_rate_limited' =
                        (usps_rate_limited \ S) \cup {p \in S : resp[p].status = 429}
    /\ UNCHANGED <<now, vacancyRunVars, runVars>>

\* get_usps_cache(cache_days=60): the row when usps_check_date is set and
\* newer than cache_days
get_usps_cache(row, t, cache) ==
    row.usps_check_date # Null /\ row.usps_check_date > t - cache

\* GET /check_usps_vacancy?parcel_id=..&county=..: answered from the cache
\* unless force or no recent check; otherwise one check and update_parcel_usps
api_check_usps_vacancy(p) ==
    /\ \E force \in BOOLEAN :
         force \/ ~get_usps_cache(gis_parcels_core[p], now, cache_days)
    /\ \E resp \in UspsResponses :
         gis_parcels_core' =
            update_parcel_usps(gis_parcels_core, check_single_parcel(p, resp), now)
    /\ usps_batch' = <<>>
    /\ usps_rate_limited' = usps_rate_limited \ {p}
    /\ UNCHANGED <<now, usps_loaded, vacancyRunVars, runVars>>

\* the rows differ in distress_composite, so that ORDER BY distress_composite
\* fixes the order of the work list
InitUspsStore ==
    /\ gis_parcels_core \in
          {f \in [Parcels -> LeadRows] :
             \A p, q \in Parcels :
                p < q => f[p].distress_composite > f[q].distress_composite}
    /\ now = 1
    /\ limit \in UspsLimits
    /\ RunIdle
    /\ UspsIdle

NextUspsStore ==
    \/ Tick
    \/ UspsLoad
    \/ UspsBatchWrite
    \/ \E p \in Parcels : api_check_usps_vacancy(p)

SpecUspsStore == InitUspsStore /\ [][NextUspsStore]_vars


\* ---------------------------------------------- vacancy pass: store properties
\* the transient errors as the claims list them
TransientSet == {"rate_limited", "http_500", "http_502", "http_503", "http_504"}

\* a lead by its identity columns: coordinates, a situs address and a
\* composite at or above --min-composite
StillALead(row) ==
    /\ row.latitude # Null
    /\ row.situs_address # NULL
    /\ row.distress_composite # Null
    /\ row.distress_composite >= min_composite

\* C2: batch_update_usps_results writes every row by the class of its
\* usps_error. No error: usps_check_date = now and usps_error = NULL.
\* Transient error: usps_error set, usps_check_date left as it was.
\* Any other error: usps_error set and usps_check_date = now.
C2_ThreeWaySplit ==
    [][\A i \in 1..Len(usps_batch') :
         LET r   == usps_batch'[i]
             old == gis_parcels_core[r.parcel_id]
             new == gis_parcels_core'[r.parcel_id]
         IN  IF r.usps_error = NULL
             THEN /\ new.usps_check_date = now
                  /\ new.usps_error = NULL
             ELSE IF r.usps_error \in TransientSet
             THEN /\ new.usps_error = r.usps_error
                  /\ new.usps_check_date = old.usps_check_date
             ELSE /\ new.usps_error = r.usps_error
                  /\ new.usps_check_date = now]_vars

\* a committed batch held a transient row whose parcel kept a NULL check date
\* next to a row of another class whose parcel was stamped
C2_Witness ==
    \E i, j \in 1..Len(usps_batch) :
        /\ usps_batch[i].usps_error = "http_503"
        /\ gis_parcels_core[usps_batch[i].parcel_id].usps_check_date = Null
        /\ gis_parcels_core[usps_batch[i].parcel_id].usps_error = "http_503"
        /\ usps_batch[j].usps_error = "http_404"
        /\ gis_parcels_core[usps_batch[j].parcel_id].usps_check_date = now
        /\ now > 1

\* C3: whatever vacancy writes ran, a parcel whose usps_check_date is NULL
\* has usps_error NULL or in the transient set.
C3_NullDateOnlyTransient ==
    \A p \in Parcels :
        gis_parcels_core[p].usps_check_date = Null =>
            gis_parcels_core[p].usps_error \in TransientSet \cup {NULL}

\* a parcel with no check date carries a transient error while another
\* parcel carries a permanent one
C3_Witness ==
    \E p, q \in Parcels :
        /\ gis_parcels_core[p].usps_check_date = Null
        /\ gis_parcels_core[p].usps_error = "rate_limited"
        /\ gis_parcels_core[q].usps_error = "http_404"

\* C4: a parcel whose row holds a permanent error (usps_error set and not
\* transient) with usps_check_date less than cache_days ago is not returned
\* by get_parcels_needing_usps.
C4_PermanentNotRetried ==
    \A p \in Parcels :
        LET row == gis_parcels_core[p]
        IN  (/\ row.usps_error \notin TransientSet \cup {NULL}
             /\ row.usps_check_date # Null
             /\ now - row.usps_check_date < cache_days)
            => p \notin Range(get_parcels_needing_usps(gis_parcels_core, now, limit,
                                                       min_composite, cache_days))

EligibleForUsps(store, t) ==
    Range(get_parcels_needing_usps(store, t, 0, min_composite, cache_days))

uspsStoreVars == <<usps_loaded, usps_batch, usps_rate_limited, auxVars>>

\* seconds: t.join(timeout=30), --delay-min, BACKOFF_START
join_timeout == 30

delay_min == 55

BACKOFF_START == 120

\* the circuit breaker thresholds of consumer_thread
pause_after == 10

abort_after == 20

\* the process is alive and its consumer threads can run
UspsAlive == {"monitor", "join", "final", "backup", "exiting"}

\* json.dumps(safe): one line of the backup file for a DB-ready row; a
\* value becomes a JSON null, true / false, string or number
json_dumps(row) ==
    LET null == [json |-> "null"]
        text(v) == IF v = NULL THEN null ELSE [json |-> "string", s |-> v]
        bool(v) == IF v = NULL THEN null
                   ELSE [json |-> IF v = "TRUE" THEN "true" ELSE "false"]
        number(n) == IF n = Null THEN null ELSE [json |-> "number", n |-> n]
    IN  [parcel_id             |-> row.parcel_id,
         usps_vacant           |-> bool(row.usps_vacant),
         usps_dpv_confirmed    |-> bool(row.usps_dpv_confirmed),
         usps_address_mismatch |-> bool(row.usps_address_mismatch),
         usps_error            |-> text(row.usps_error),
         flag_vacancy          |-> bool(IF row.flag_vacancy THEN "TRUE" ELSE "FALSE"),
         vacancy_confidence    |-> number(row.vacancy_confidence)]

\* json.loads(line): the record replay_backup reads back
json_loads(line) ==
    LET text(j) == IF j.json = "null" THEN NULL ELSE j.s
        bool(j) == IF j.json = "null" THEN NULL
                   ELSE IF j.json = "true" THEN "TRUE" ELSE "FALSE"
        number(j) == IF j.json = "null" THEN Null ELSE j.n
    IN  [parcel_id             |-> line.parcel_id,
         usps_vacant           |-> bool(line.usps_vacant),
         usps_dpv_confirmed    |-> bool(line.usps_dpv_confirmed),
         usps_address_mismatch |-> bool(line.usps_address_mismatch),
         usps_error            |-> text(line.usps_error),
         flag_vacancy          |-> bool(line.flag_vacancy) = "TRUE",
         vacancy_confidence    |-> number(line.vacancy_confidence)]

\* the records of a backup file
records(journal) == [i \in 1..Len(journal) |-> json_loads(journal[i])]

\* a backup that writes nothing
_save_local_backup_nothing(journal, db_batch) == journal

\* _save_local_backup: one line per row is appended to the backup file
_save_local_backup(journal, db_batch) ==
    journal \o [i \in 1..Len(db_batch) |-> json_dumps(db_batch[i])]

\* replay_backup at store time t: every record of the file goes through
\* one batch_update_usps_results call; the file is renamed when it worked
replay_backup(store, journal, t, raised) ==
    IF journal = <<>> THEN [store |-> store, journal |-> journal]
    ELSE IF raised THEN [store |-> store, journal |-> journal]
    ELSE [store   |-> batch_update_usps_results(store, records(journal), t, FALSE),
          journal |-> <<>>]

\* flush_buffer of the vacancy run: drain the buffer; a dry run prints; a
\* failed write saves the batch to the backup file and puts it back
usps_flush_buffer(buf, store, journal, dry, t, raised) ==
    IF buf = <<>>
    THEN [buffer |-> buf, store |-> store, journal |-> journal, written |-> <<>>]
    ELSE IF dry
    THEN [buffer |-> <<>>, store |-> store, journal |-> journal, written |-> <<>>]
    ELSE IF ~raised
    THEN [buffer  |-> <<>>,
          store   |-> batch_update_usps_results(store, buf, t, FALSE),
          journal |-> journal, written |-> buf]
    ELSE [buffer  |-> extendleft(<<>>, buf),
          store   |-> batch_update_usps_results(store, buf, t, TRUE),
          journal |-> _save_local_backup(journal, buf), written |-> <<>>]

\* a resolver that lists every resolved parcel twice
pre_resolve_addresses_twice(rows, resolvable) ==
    SelectSeq(rows, LAMBDA p : p \in resolvable) \o
    SelectSeq(rows, LAMBDA p : p \in resolvable)

\* pre_resolve_addresses: the parcels whose situs gives a street and a city
\* or ZIP go on; the others are skipped. Which addresses resolve depends on
\* the address text and the geocoder: resolvable is that outcome.
pre_resolve_addresses(rows, resolvable) ==
    SelectSeq(rows, LAMBDA p : p \in resolvable)

IdleConsumer ==
    [state |-> "idle", parcel |-> 0, consecutive_errors |-> 0, requested |-> FALSE]

Exited(a) == consumers[a].state \in {"none", "exited"}

\* main() of a new process up to the monitor loop
UspsRunLoad ==
    /\ pc \in {"idle", "done"}
    /\ runs < MaxUspsRuns
    /\ runs' = runs + 1
    /\ \E dry \in BOOLEAN, resolvable \in SUBSET Parcels :
         LET loaded   == get_parcels_needing_usps(gis_parcels_core, now, limit,
                                                  min_composite, cache_days)
             resolved == pre_resolve_addresses(loaded, resolvable)
         IN  /\ dry_run' = dry
             /\ parcels' = loaded
             /\ IF loaded = <<>> \/ resolved = <<>>
                THEN /\ pc' = "done"
                     /\ work_queue' = <<>>
                     /\ consumers' = [a \in Accounts |-> NoConsumer]
                ELSE /\ pc' = "monitor"
                     /\ work_queue' = resolved
                     /\ consumers' = [a \in Accounts |-> IdleConsumer]
    /\ results_buffer' = <<>>
    /\ shutdown_event' = FALSE
    /\ committed' = {}
    /\ completed' = {}
    /\ late_calls' = {}
    /\ UNCHANGED <<uspsStoreVars, usps_journal, gis_parcels_core, now, limit,
                   futures, collected, drained>>

\* "while not shutdown_event.is_set()": the consumer tests the flag at the
\* top of its loop and leaves when it is set
ConsumerLoop(a) ==
    /\ pc \in UspsAlive
    /\ consumers[a].state = "idle"
    /\ consumers' = [consumers EXCEPT
          ![a].state = IF shutdown_event THEN "exited" ELSE "get"]
    /\ UNCHANGED <<uspsStoreVars, work_queue, usps_journal, gis_parcels_core, now,
                   pc, runs, limit, parcels, futures, collected, results_buffer,
                   shutdown_event, dry_run, committed, completed, drained,
                   late_calls>>

\* "parcel = work_queue.get(timeout=2)": the consumer takes the next parcel
\* and enters check_single_parcel, where _random_delay sleeps before every
\* request but the checker's first; queue.Empty ends the loop
ConsumerGet(a) ==
    /\ pc \in UspsAlive
    /\ consumers[a].state = "get"
    /\ IF work_queue = <<>>
       THEN /\ consumers' = [consumers EXCEPT ![a].state = "exited"]
            /\ UNCHANGED <<work_queue, late_calls>>
       ELSE /\ work_queue' = Tail(work_queue)
            /\ consumers' = [consumers EXCEPT
                  ![a].parcel = Head(work_queue),
                  ![a].state  = IF consumers[a].requested THEN "delay"
                                ELSE "request"]
            /\ late_calls' = IF shutdown_event
                             THEN late_calls \cup {Head(work_queue)}
                             ELSE late_calls
    /\ UNCHANGED <<uspsStoreVars, usps_journal, gis_parcels_core, now, pc, runs,
                   limit, parcels, futures, collected, results_buffer,
                   shutdown_event, dry_run, committed, completed, drained>>

\* _random_delay returns: time.sleep is over
ConsumerDelayDone(a) ==
    /\ pc \in UspsAlive
    /\ consumers[a].state = "delay"
    /\ consumers' = [consumers EXCEPT ![a].state = "request"]
    /\ UNCHANGED <<uspsStoreVars, work_queue, usps_journal, gis_parcels_core, now,
                   pc, runs, limit, parcels, futures, collected, results_buffer,
                   shutdown_event, dry_run, committed, completed, drained,
                   late_calls>>

\* a breaker that never pauses
circuit_breaker_no_pause(consecutive_errors, result) ==
    LET errs == IF no_error(result.usps_error) THEN 0 ELSE consecutive_errors + 1
    IN  [errs |-> errs, pause |-> FALSE, left |-> errs,
         abort |-> errs >= abort_after]

\* the counting of consumer_thread for one result: an error result adds
\* one, an error-free result restarts at 0; at pause_after the consumer
\* sleeps 300 s and restarts at 0; then the abort test on what is left
circuit_breaker(consecutive_errors, result) ==
    LET errs  == IF no_error(result.usps_error) THEN 0 ELSE consecutive_errors + 1
        pause == errs >= pause_after
        left  == IF pause THEN 0 ELSE errs
    IN  [errs |-> errs, pause |-> pause, left |-> left,
         abort |-> left >= abort_after]

\* the rest of one loop iteration once check_single_parcel has returned:
\* append under the lock, count, flush at the threshold, circuit breaker
\* (time.sleep(300) then the counter restarts), task_done
consumer_append(a, result) ==
    LET buf  == Append(results_buffer, result)
        cb   == circuit_breaker(consumers[a].consecutive_errors, result)
    IN  /\ \E raised \in BOOLEAN :
             LET f == IF Len(buf) >= FlushEvery
                      THEN usps_flush_buffer(buf, gis_parcels_core, usps_journal,
                                             dry_run, now, raised)
                      ELSE [buffer |-> buf, store |-> gis_parcels_core,
                            journal |-> usps_journal, written |-> <<>>]
             IN  /\ results_buffer' = f.buffer
                 /\ gis_parcels_core' = f.store
                 /\ usps_journal' = f.journal
                 /\ committed' = committed \cup Ids(f.written)
        /\ completed' = completed \cup {result.parcel_id}
        /\ consumers' = [consumers EXCEPT
              ![a].parcel = 0,
              ![a].requested = TRUE,
              ![a].consecutive_errors = cb.left,
              ![a].state = IF cb.abort THEN "exited" ELSE "idle"]
        /\ shutdown_event' = (shutdown_event \/ cb.abort)

\* the request of check_address returns: a 429 goes to _backoff_429, any
\* other response is the result; or the check raises (_authenticate is
\* outside check_address's try) and "except Exception" counts an error.
\* The answers are one of each class: a 200, a 429 (whose "rate_limited"
\* result is the transient one) and a permanent 404.
ConsumerRequest(a) ==
    /\ pc \in UspsAlive
    /\ consumers[a].state = "request"
    /\ \/ \E resp \in {r \in UspsResponses : r.status # 503} :
            IF resp.status = 429
            THEN /\ consumers' = [consumers EXCEPT ![a].state = "backoff",
                                                   ![a].requested = TRUE]
                 /\ UNCHANGED <<gis_parcels_core, results_buffer, usps_journal,
                                committed, completed, shutdown_event>>
            ELSE consumer_append(a, check_single_parcel(consumers[a].parcel, resp))
       \/ /\ consumers' = [consumers EXCEPT
                ![a].parcel = 0,
                ![a].state = "idle",
                ![a].consecutive_errors = consumers[a].consecutive_errors + 1]
          /\ UNCHANGED <<gis_parcels_core, results_buffer, usps_journal,
                         committed, completed, shutdown_event>>
    /\ UNCHANGED <<uspsStoreVars, work_queue, now, pc, runs, limit, parcels,
                   futures, collected, dry_run, drained, late_calls>>

\* _backoff_429 returns after its sleep and check_address returns the
\* "rate_limited" result
ConsumerBackoffDone(a) ==
    /\ pc \in UspsAlive
    /\ consumers[a].state = "backoff"
    /\ consumer_append(a, check_single_parcel(consumers[a].parcel,
                             CHOOSE r \in UspsResponses : r.status = 429))
    /\ UNCHANGED <<uspsStoreVars, work_queue, now, pc, runs, limit, parcels,
                   futures, collected, dry_run, drained, late_calls>>

\* SIGINT: handle_sigint sets the flag
UspsInterrupt ==
    /\ pc \in UspsAlive
    /\ ~shutdown_event
    /\ shutdown_event' = TRUE
    /\ UNCHANGED <<uspsVars, gis_parcels_core, now, pc, runs, limit, parcels,
                   futures, collected, results_buffer, dry_run, committed,
                   completed, drained, late_calls>>

\* "while any(t.is_alive()): time.sleep(5); if shutdown_event.is_set(): break"
UspsMonitorEnd ==
    /\ pc = "monitor"
    /\ shutdown_event \/ \A a \in Accounts : Exited(a)
    /\ pc' = "join"
    /\ UNCHANGED <<uspsVars, gis_parcels_core, now, runs, limit, parcels, futures,
                   collected, results_buffer, shutdown_event, dry_run, committed,
                   completed, drained, late_calls>>

\* a consumer in a sleep longer than the join timeout: the delay before a
\* request (at least delay_min) or the backoff after a 429
SleepsPastJoin(a) ==
    \/ consumers[a].state = "delay" /\ delay_min > join_timeout
    \/ consumers[a].state = "backoff" /\ BACKOFF_START > join_timeout

\* "for t in threads: t.join(timeout=30)": every thread has ended, or a
\* join timed out on a thread still sleeping
UspsJoin ==
    /\ pc = "join"
    /\ \/ \A a \in Accounts : Exited(a)
       \/ \E a \in Accounts : SleepsPastJoin(a)
    /\ pc' = "final"
    /\ UNCHANGED <<uspsVars, gis_parcels_core, now, runs, limit, parcels, futures,
                   collected, results_buffer, shutdown_event, dry_run, committed,
                   completed, drained, late_calls>>

\* "flush_buffer(dry_run=args.dry_run)" after the joins
UspsFinalFlush ==
    /\ pc = "final"
    /\ \E raised \in BOOLEAN :
         LET f == usps_flush_buffer(results_buffer, gis_parcels_core, usps_journal,
                                    dry_run, now, raised)
         IN  /\ results_buffer' = f.buffer
             /\ gis_parcels_core' = f.store
             /\ usps_journal' = f.journal
             /\ committed' = committed \cup Ids(f.written)
    /\ pc' = "backup"
    /\ UNCHANGED <<uspsStoreVars, work_queue, consumers, now, runs, limit, parcels,
                   futures, collected, shutdown_event, dry_run, completed,
                   drained, late_calls>>

\* the emergency backup: what is still buffered goes to the backup file
UspsEmergencyBackup ==
    /\ pc = "backup"
    /\ usps_journal' = IF results_buffer # <<>> /\ ~dry_run
                       THEN _save_local_backup(usps_journal, results_buffer)
                       ELSE usps_journal
    /\ pc' = "exiting"
    /\ UNCHANGED <<uspsStoreVars, work_queue, consumers, gis_parcels_core, now,
                   runs, limit, parcels, futures, collected, results_buffer,
                   shutdown_event, dry_run, committed, completed, drained,
                   late_calls>>

\* main returns and the interpreter exits: daemon threads still running
\* are stopped where they are
UspsProcessExit ==
    /\ pc = "exiting"
    /\ pc' = "done"
    /\ consumers' = [a \in Accounts |->
                       IF Exited(a) THEN consumers[a]
                       ELSE [consumers[a] EXCEPT !.state = "killed"]]
    /\ UNCHANGED <<uspsStoreVars, work_queue, usps_journal, gis_parcels_core, now,
                   runs, limit, parcels, futures, collected, results_buffer,
                   shutdown_event, dry_run, committed, completed, drained,
                   late_calls>>

InitUspsRun ==
    /\ gis_parcels_core \in
          {f \in [Parcels -> LeadRows] :
             \A p, q \in Parcels :
                p < q => f[p].distress_composite > f[q].distress_composite}
    /\ now = 1
    /\ limit \in UspsLimits
    /\ RunIdle
    /\ UspsIdle

NextUspsRun ==
    \/ UspsRunLoad
    \/ \E a \in Accounts : ConsumerLoop(a)
    \/ \E a \in Accounts : ConsumerGet(a)
    \/ \E a \in Accounts : ConsumerDelayDone(a)
    \/ \E a \in Accounts : ConsumerRequest(a)
    \/ \E a \in Accounts : ConsumerBackoffDone(a)
    \/ UspsInterrupt
    \/ UspsMonitorEnd
    \/ UspsJoin
    \/ UspsFinalFlush
    \/ UspsEmergencyBackup
    \/ UspsProcessExit

SpecUspsRun == InitUspsRun /\ [][NextUspsRun]_vars

\* a consumer's check was cut off: the thread was stopped holding a parcel
CutOff(a) == consumers[a].state = "killed" /\ consumers[a].parcel # 0

\* C10: in the vacancy pass, when the process has exited after shutdown was
\* signaled, each check that was in flight has completed (no consumer was
\* stopped in the middle of a check), and every result a consumer appended
\* to the results buffer has been written to the store or to the backup
\* file (a dry run writes nothing by design and is left out).
C10_VacancyShutdownDrains ==
    /\ (pc = "done" /\ shutdown_event) => \A a \in Accounts : ~CutOff(a)
    /\ (pc = "done" /\ shutdown_event /\ ~dry_run) =>
          completed \subseteq (committed \cup Ids(usps_journal))

\* a step in which a flush of the vacancy run drained a non-empty batch and
\* its store update raised: the threshold flush of a consumer (a result was
\* appended and the buffer reached flush_every) or the final flush, outside
\* a dry run, after which the rows are back in the buffer
FlushFailedStep ==
    /\ ~dry_run
    /\ \/ pc = "final" /\ pc' = "backup" /\ results_buffer # <<>>
       \/ /\ pc \in UspsAlive
          /\ completed' # completed
          /\ Len(results_buffer) + 1 >= FlushEvery
    /\ results_buffer' # <<>>

\* C11: whenever the store update of a vacancy-run flush fails, every row
\* of the drained batch has been appended to the backup file when
\* flush_buffer returns: the rows put back in the buffer are exactly the
\* rows added to the file, and the store is unchanged.
C11_FailedFlushJournaled ==
    [][FlushFailedStep =>
          /\ \E added \in {Reverse(results_buffer')} :
                records(usps_journal') = records(usps_journal) \o added
          /\ gis_parcels_core' = gis_parcels_core]_vars

\* a flush has failed: rows are buffered outside a dry run and each is in
\* the backup file
C11_Witness ==
    /\ pc \in UspsAlive
    /\ ~dry_run
    /\ results_buffer # <<>>
    /\ Range(results_buffer) \subseteq Range(records(usps_journal))
    /\ committed = {}

\* C12: the backup file holds one record per check: within a run no
\* parcel's result is in the file more than once.
C12_JournaledAtMostOnce ==
    \A i, j \in 1..Len(usps_journal) :
       usps_journal[i].parcel_id = usps_journal[j].parcel_id => i = j

\* ------------------------------------------------------------------
\* The backup file over several vacancy runs and a replay
\* (flush_buffer, _save_local_backup, replay_backup): runs load their
\* work list, their flushes commit or fail, and --replay pushes the
\* file to the store.
\* ------------------------------------------------------------------

\* a new process of the vacancy run loads its work list
JournalLoad ==
    /\ usps_loaded' = Range(get_parcels_needing_usps(gis_parcels_core, now, limit,
                                                     min_composite, cache_days))
    /\ usps_loaded' # {}
    /\ usps_loaded' # usps_loaded \/ results_buffer # <<>>
    /\ results_buffer' = <<>>
    /\ UNCHANGED <<gis_parcels_core, now, pc, runs, limit, parcels, futures,
                   collected, shutdown_event, dry_run, committed, completed,
                   drained, late_calls, usps_batch, usps_rate_limited,
                   vacancyRunVars>>

\* a flush of the run: the batch is what an earlier failed flush put back
\* plus the results of newly checked parcels of the work list
JournalFlush ==
    /\ \E S \in SUBSET usps_loaded, raised \in BOOLEAN :
         \E resp \in [S -> UspsResponses] :
           LET order == SortBy(S, [p \in S |-> p])
               batch == results_buffer \o
                          [i \in 1..Len(order) |->
                             check_single_parcel(order[i], resp[order[i]])]
               f     == usps_flush_buffer(batch, gis_parcels_core, usps_journal,
                                          FALSE, now, raised)
           IN  /\ batch # <<>>
               /\ raised => Len(usps_journal) + Len(batch) <= MaxJournal
               /\ gis_parcels_core' = f.store
               /\ usps_journal' = f.journal
               /\ results_buffer' = f.buffer
               /\ inline_store' =
                     batch_update_usps_results(inline_store, batch, now, FALSE)
               /\ usps_loaded' = usps_loaded \ S
    /\ UNCHANGED <<now, pc, runs, limit, parcels, futures, collected,
                   shutdown_event, dry_run, committed, completed, drained,
                   late_calls, usps_batch, usps_rate_limited, work_queue,
                   consumers, auxButJournal>>

\* "--replay FILE" once the store is back
JournalReplay ==
    /\ usps_journal # <<>>
    /\ \E raised \in BOOLEAN :
         LET r == replay_backup(gis_parcels_core, usps_journal, now, raised)
         IN  /\ gis_parcels_core' = r.store
             /\ usps_journal' = r.journal
    /\ UNCHANGED <<now, pc, runs, limit, parcels, futures, collected,
                   results_buffer, shutdown_event, dry_run, committed, completed,
                   drained, late_calls, usps_loaded, usps_batch,
                   usps_rate_limited, work_queue, consumers, inline_store,
                   auxButJournal>>

InitUspsJournal ==
    /\ gis_parcels_core \in
          {f \in [Parcels -> LeadRows] :
             \A p, q \in Parcels :
                p < q => f[p].distress_composite > f[q].distress_composite}
    /\ inline_store = gis_parcels_core
    /\ now = 1
    /\ limit \in UspsLimits
    /\ RunIdle
    /\ usps_loaded = {}
    /\ usps_batch = <<>>
    /\ usps_rate_limited = {}
    /\ work_queue = <<>>
    /\ consumers = [a \in Accounts |-> NoConsumer]
    /\ usps_journal = <<>>
    /\ BreakerIdle
    /\ LockIdle
    /\ ConvictionIdle
    /\ LaterIdle("")

NextUspsJournal ==
    \/ JournalLoad
    \/ JournalFlush
    \/ JournalReplay

SpecUspsJournal == InitUspsJournal /\ [][NextUspsJournal]_vars

\* the row without its timestamp
undated(row) == [row EXCEPT !.usps_check_date = Null]

\* C13: once the backup file has been replayed and nothing is waiting in
\* the buffer, the store equals, timestamps aside, the store in which the
\* rows of every failed flush had been written in-line by that flush.
C13_ReplayEqualsInline ==
    (usps_journal = <<>> /\ results_buffer = <<>>) =>
       \A p \in Parcels : undated(gis_parcels_core[p]) = undated(inline_store[p])

\* ------------------------------------------------------------------
\* The circuit breaker of consumer_thread over a long queue: each
\* consumer pulls, its check returns an error-free result, an error
\* result or raises, and the counting of the loop body follows.
\* ------------------------------------------------------------------

\* streak: consecutive checks that ended in an error (an error result or
\* an exception) since the last error-free result; error_results:
\* consecutive error results since the last error-free result or pause;
\* overtook: the consumer pulled while another one was paused
NoChecks == [streak |-> 0, error_results |-> 0, overtook |-> FALSE]

\* the top of the loop: leave when the flag is set, else pull a parcel
BreakerPull(a) ==
    /\ consumers[a].state = "idle"
    /\ breaker[1].streak + breaker[3].streak < MaxStreak
    /\ consumers' = [consumers EXCEPT
          ![a].state  = IF shutdown_event THEN "exited" ELSE "request",
          ![a].parcel = IF shutdown_event THEN 0 ELSE 1]
    /\ breaker' = [breaker EXCEPT
          ![a].overtook = @ \/ (/\ ~shutdown_event
                                /\ \E b \in Accounts \ {a} :
                                      consumers[b].state = "pause")]
    /\ UNCHANGED <<gis_parcels_core, now, runVars, usps_loaded, usps_batch,
                   usps_rate_limited, work_queue, usps_journal, auxButBreaker>>

\* the check returns a result: count it; at pause_after the consumer goes
\* to sleep, else the abort test follows
BreakerResult(a) ==
    /\ consumers[a].state = "request"
    /\ \E resp \in UspsResponses :
         LET result == check_single_parcel(consumers[a].parcel, resp)
             cb     == circuit_breaker(consumers[a].consecutive_errors, result)
         IN  /\ consumers' = [consumers EXCEPT
                   ![a].parcel = 0,
                   ![a].requested = TRUE,
                   ![a].consecutive_errors = cb.errs,
                   ![a].state = IF cb.pause THEN "pause"
                                ELSE IF cb.abort THEN "exited" ELSE "idle"]
             /\ shutdown_event' = (shutdown_event \/ (~cb.pause /\ cb.abort))
             /\ breaker' = [breaker EXCEPT
                   ![a].streak = IF no_error(result.usps_error) THEN 0 ELSE @ + 1,
                   ![a].error_results =
                       IF no_error(result.usps_error) THEN 0 ELSE @ + 1]
    /\ UNCHANGED <<gis_parcels_core, now, pc, runs, limit, parcels, futures,
                   collected, results_buffer, dry_run, committed, completed,
                   drained, late_calls, usps_loaded, usps_batch,
                   usps_rate_limited, work_queue, usps_journal, auxButBreaker>>

\* the check raises: "except Exception" adds one and the loop goes on
BreakerRaised(a) ==
    /\ consumers[a].state = "request"
    /\ consumers' = [consumers EXCEPT
          ![a].parcel = 0,
          ![a].state = "idle",
          ![a].consecutive_errors = @ + 1]
    /\ breaker' = [breaker EXCEPT ![a].streak = @ + 1]
    /\ UNCHANGED <<gis_parcels_core, now, runVars, usps_loaded, usps_batch,
                   usps_rate_limited, work_queue, usps_journal, auxButBreaker>>

\* time.sleep(300) is over: "consecutive_errors = 0", then the abort test
BreakerPauseDone(a) ==
    /\ consumers[a].state = "pause"
    /\ LET left == 0
       IN  /\ consumers' = [consumers EXCEPT
                 ![a].consecutive_errors = left,
                 ![a].state = IF left >= abort_after THEN "exited" ELSE "idle"]
           /\ shutdown_event' = (shutdown_event \/ left >= abort_after)
    /\ breaker' = [breaker EXCEPT ![a].error_results = 0]
    /\ UNCHANGED <<gis_parcels_core, now, pc, runs, limit, parcels, futures,
                   collected, results_buffer, dry_run, committed, completed,
                   drained, late_calls, usps_loaded, usps_batch,
                   usps_rate_limited, work_queue, usps_journal, auxButBreaker>>

\* the consumers have been started on a queue and nothing is checked yet
InitBreaker ==
    /\ gis_parcels_core = [p \in Parcels |-> BlankRow(1, "12 OAK ST", NoFema, 900)]
    /\ now = 1
    /\ limit = 0
    /\ RunIdle
    /\ usps_loaded = {}
    /\ usps_batch = <<>>
    /\ usps_rate_limited = {}
    /\ work_queue = <<>>
    /\ usps_journal = <<>>
    /\ JournalIdle
    /\ LockIdle
    /\ ConvictionIdle
    /\ LaterIdle("")
    /\ consumers = [a \in Accounts |-> IdleConsumer]
    /\ breaker = [a \in Accounts |-> NoChecks]

NextBreaker ==
    \/ \E a \in Accounts : BreakerPull(a)
    \/ \E a \in Accounts : BreakerResult(a)
    \/ \E a \in Accounts : BreakerRaised(a)
    \/ \E a \in Accounts : BreakerPauseDone(a)

SpecBreaker == InitBreaker /\ [][NextBreaker]_vars

\* C14: a consumer that has reached 20 consecutive errors aborts the run:
\* after its pause, if any, it has stopped and the shutdown flag is set; it
\* is not back at the top of its loop pulling parcels.
C14_AbortAtTwenty ==
    \A a \in Accounts :
       breaker[a].streak >= abort_after =>
          /\ consumers[a].state \in {"pause", "exited"}
          /\ consumers[a].state = "exited" => shutdown_event

\* C15: a consumer whose consecutive error results reach 10 is paused
\* before it pulls again (a paused consumer holds no parcel and only wakes
\* up), its pause changes nothing for the other consumers nor the shutdown
\* flag, and an error-free result puts its consecutive-error count at 0.
C15_PauseAtTen ==
    /\ [](\A a \in Accounts :
            /\ breaker[a].error_results >= pause_after =>
                  consumers[a].state = "pause"
            /\ consumers[a].state = "pause" => consumers[a].parcel = 0)
    /\ [][\A a \in Accounts :
            /\ (consumers[a].state = "pause" /\ consumers'[a] # consumers[a]) =>
                  consumers'[a].state = "idle"
            /\ (consumers[a].state # "pause" /\ consumers'[a].state = "pause") =>
                  /\ \A b \in Accounts \ {a} : consumers'[b] = consumers[b]
                  /\ shutdown_event' = shutdown_event
            /\ (consumers[a].state = "request" /\ consumers'[a].state # "request"
                  /\ breaker'[a].streak = 0) =>
                  consumers'[a].consecutive_errors = 0]_vars

\* a consumer is paused after 10 consecutive error results and the other
\* one has pulled a parcel meanwhile
C15_Witness ==
    \E a \in Accounts :
       /\ consumers[a].state = "pause"
       /\ breaker[a].error_results = pause_after
       /\ breaker[a].streak = pause_after
       /\ \E b \in Accounts \ {a} :
             breaker[b].overtook /\ consumers[b].state = "request"

\* ------------------------------------------------------------------
\* The pid-file lock (acquire_lock / release_lock): processes of the
\* vacancy pass started without --dry-run, each one statement at a time.
\* ------------------------------------------------------------------

Procs == 1..NumProcs

\* the pid left in a lock file by a process that is gone
StalePid == NumProcs + 1

NotStarted == [at |-> "start", pid |-> 0]

\* os.kill(pid, 0) succeeds: the pid is a process that has not ended
Alive(pid) ==
    pid \in Procs /\ procs[pid].at \notin {"start", "aborted", "died", "exited"}

\* main() reaches acquire_lock: "if os.path.exists(LOCK_FILE)"
LockExists(p) ==
    /\ procs[p].at = "start"
    /\ procs' = [procs EXCEPT ![p].at = IF lock_file = 0 THEN "write" ELSE "read"]
    /\ UNCHANGED <<gis_parcels_core, now, runVars, usps_loaded, usps_batch,
                   usps_rate_limited, work_queue, consumers, usps_journal,
                   auxButLock, lock_file>>

\* "pid = int(f.read().strip())"; open() on a file removed meanwhile
\* raises FileNotFoundError, which nothing catches
LockRead(p) ==
    /\ procs[p].at = "read"
    /\ procs' = [procs EXCEPT
          ![p].at  = IF lock_file = 0 THEN "died" ELSE "kill",
          ![p].pid = lock_file]
    /\ UNCHANGED <<gis_parcels_core, now, runVars, usps_loaded, usps_batch,
                   usps_rate_limited, work_queue, consumers, usps_journal,
                   auxButLock, lock_file>>

\* "os.kill(pid, 0)": a live pid ends the run with sys.exit(1);
\* ProcessLookupError leads to the except branch
LockKill(p) ==
    /\ procs[p].at = "kill"
    /\ procs' = [procs EXCEPT
          ![p].at = IF Alive(procs[p].pid) THEN "aborted" ELSE "remove"]
    /\ UNCHANGED <<gis_parcels_core, now, runVars, usps_loaded, usps_batch,
                   usps_rate_limited, work_queue, consumers, usps_journal,
                   auxButLock, lock_file>>

\* "os.remove(LOCK_FILE)" of the stale branch; on a file removed meanwhile
\* it raises FileNotFoundError inside the except branch
LockRemove(p) ==
    /\ procs[p].at = "remove"
    /\ procs' = [procs EXCEPT ![p].at = IF lock_file = 0 THEN "died" ELSE "write"]
    /\ lock_file' = 0
    /\ UNCHANGED <<gis_parcels_core, now, runVars, usps_loaded, usps_batch,
                   usps_rate_limited, work_queue, consumers, usps_journal,
                   auxButLock>>

\* "with open(LOCK_FILE, 'w') as f: f.write(str(os.getpid()))" and
\* atexit.register(release_lock): the process is past acquire_lock
LockWrite(p) ==
    /\ procs[p].at = "write"
    /\ lock_file' = p
    /\ procs' = [procs EXCEPT ![p].at = "running"]
    /\ UNCHANGED <<gis_parcels_core, now, runVars, usps_loaded, usps_batch,
                   usps_rate_limited, work_queue, consumers, usps_journal,
                   auxButLock>>

\* the run ends and release_lock removes LOCK_FILE, whatever pid it holds
LockRelease(p) ==
    /\ procs[p].at = "running"
    /\ lock_file' = 0
    /\ procs' = [procs EXCEPT ![p].at = "exited"]
    /\ UNCHANGED <<gis_parcels_core, now, runVars, usps_loaded, usps_batch,
                   usps_rate_limited, work_queue, consumers, usps_journal,
                   auxButLock>>

\* no lock file, or the file of a process that is gone
InitUspsLock ==
    /\ gis_parcels_core = [p \in Parcels |-> BlankRow(1, "12 OAK ST", NoFema, 900)]
    /\ now = 1
    /\ limit = 0
    /\ RunIdle
    /\ usps_loaded = {}
    /\ usps_batch = <<>>
    /\ usps_rate_limited = {}
    /\ work_queue = <<>>
    /\ usps_journal = <<>>
    /\ consumers = [a \in Accounts |-> NoConsumer]
    /\ JournalIdle
    /\ BreakerIdle
    /\ ConvictionIdle
    /\ LaterIdle("")
    /\ lock_file \in {0, StalePid}
    /\ procs = [p \in Procs |-> NotStarted]

NextUspsLock ==
    \/ \E p \in Procs : LockExists(p)
    \/ \E p \in Procs : LockRead(p)
    \/ \E p \in Procs : LockKill(p)
    \/ \E p \in Procs : LockRemove(p)
    \/ \E p \in Procs : LockWrite(p)
    \/ \E p \in Procs : LockRelease(p)

SpecUspsLock == InitUspsLock /\ [][NextUspsLock]_vars

\* C16: at most one process is past acquire_lock (and issuing
\* address-validation requests) at any time.
C16_LockMutualExclusion ==
    Cardinality({p \in Procs : procs[p].at = "running"}) <= 1

\* ------------------------------------------------ the lock and --dry-run
\* main(): "if not args.dry_run: acquire_lock()". A process started with
\* --dry-run goes on to the migration, the load and the consumer threads
\* without touching LOCK_FILE
DryRunStart(p) ==
    /\ procs[p].at = "start"
    /\ procs' = [procs EXCEPT ![p].at = "dry_running"]
    /\ UNCHANGED <<gis_parcels_core, now, runVars, usps_loaded, usps_batch,
                   usps_rate_limited, work_queue, consumers, usps_journal,
                   auxButLock, lock_file>>

\* the dry run ends; release_lock was never registered
DryRunExit(p) ==
    /\ procs[p].at = "dry_running"
    /\ procs' = [procs EXCEPT ![p].at = "exited"]
    /\ UNCHANGED <<gis_parcels_core, now, runVars, usps_loaded, usps_batch,
                   usps_rate_limited, work_queue, consumers, usps_journal,
                   auxButLock, lock_file>>

NextUspsDryLock ==
    \/ NextUspsLock
    \/ \E p \in Procs : DryRunStart(p)
    \/ \E p \in Procs : DryRunExit(p)

SpecUspsDryLock == InitUspsLock /\ [][NextUspsDryLock]_vars

\* C27: every vacancy run that issues address-validation requests, a dry
\* run included, holds the pid-file lock while it does: the lock file
\* carries its pid from before its first request until it exits.
C27_RequestsUnderLock ==
    \A p \in Procs :
       procs[p].at \in {"running", "dry_running"} => lock_file = p

\* ------------------------------------------------------ the conviction pass
\* batch_conviction_score.py. Stored and fetched amounts are in hundredths;
\* inside compute_conviction an amount is an exact fraction [n, d], d > 0,
\* in lowest terms.
Q(n, d) ==
    LET RECURSIVE gcd(_, _)
        gcd(a, b) == IF b = 0 THEN a ELSE gcd(b, a % b)
        g == gcd(IF n < 0 THEN 0 - n ELSE n, d)
    IN  [n |-> n \div g, d |-> d \div g]

\* x + y, x * y, and x / y for y > 0
QAdd(x, y) == Q(x.n * y.d + y.n * x.d, x.d * y.d)

QMul(x, y) == Q(x.n * y.n, x.d * y.d)

QDiv(x, y) == Q(x.n * y.d, x.d * y.n)

\* round(x, 2) for x >= 0, in hundredths: the nearest hundredth. The float
\* that stands for x is x itself (err = 0: a tie goes to the even hundredth)
\* or lies just below or above it (err = -1, 1: that side decides a tie).
round2(x, err) ==
    LET num == 100 * x.n
        q   == num \div x.d
        r   == num % x.d
    IN  IF 2 * r < x.d THEN q
        ELSE IF 2 * r > x.d THEN q + 1
        ELSE IF err < 0 THEN q
        ELSE IF err > 0 THEN q + 1
        ELSE IF q % 2 = 0 THEN q ELSE q + 1

\* the model constants v1.0, in hundredths
W_DS == 35
W_MC == 40
MC_CAP == 700
VAC_BONUS_MAX == 250

\* a clamp that lets everything through
clamp_none(x, lo, hi) == x

\* max(lo, min(x, hi))
clamp(x, lo, hi) ==
    LET m == IF hi.n * x.d < x.n * hi.d THEN hi ELSE x
    IN  IF m.n * lo.d < lo.n * m.d THEN lo ELSE m

\* Python's None where a fraction may stand
None == [n |-> Null, d |-> 1]

\* a compute_conviction that ranks a parcel on its vacancy bonus alone
compute_conviction_with_bonus(ds_composite, mc_raw, mc_count, flag_vacancy, vac_conf, usps_error, fp) ==
    LET ds_comp == IF ds_composite = Null THEN None
                   ELSE clamp(QDiv(Q(ds_composite, 100), Q(10, 1)), Q(0, 1), Q(1, 1))
        mc_comp == IF mc_count = Null \/ mc_count = 0 THEN None
                   ELSE clamp(QDiv(Q(mc_raw, 100), Q(MC_CAP, 100)), Q(0, 1), Q(1, 1))
        vac_bonus ==
            IF flag_vacancy /\ no_error(usps_error)
            THEN LET vc == clamp(IF vac_conf # Null THEN Q(vac_conf, 100) ELSE Q(8, 10),
                                 Q(0, 1), Q(1, 1))
                 IN  QMul(Q(VAC_BONUS_MAX, 100), vc)
            ELSE Q(0, 1)
        base_sum == QAdd(IF ds_comp # None THEN Q(W_DS, 100) ELSE Q(0, 1),
                         IF mc_comp # None THEN Q(W_MC, 100) ELSE Q(0, 1))
        base == IF base_sum = Q(0, 1) THEN Q(0, 1)
                ELSE QDiv(QMul(Q(10, 1),
                               QAdd(QMul(Q(W_DS, 100), IF ds_comp # None THEN ds_comp ELSE Q(0, 1)),
                                    QMul(Q(W_MC, 100), IF mc_comp # None THEN mc_comp ELSE Q(0, 1)))),
                          base_sum)
    IN  IF base_sum = Q(0, 1) /\ vac_bonus = Q(0, 1)
        THEN [score |-> Null, base |-> Null, bonus |-> 0, components |-> <<>>]
        ELSE [score |-> round2(clamp(QAdd(base, vac_bonus), Q(0, 1), Q(10, 1)), fp),
              base  |-> round2(base, 0),
              bonus |-> round2(vac_bonus, 0),
              components |->
                 (IF ds_comp # None THEN <<"DS">> ELSE <<>>)
                 \o (IF mc_comp # None THEN <<"MC">> ELSE <<>>)
                 \o (IF vac_bonus.n > 0 THEN <<"VAC">> ELSE <<>>)]

\* a compute_conviction that returns no bonus with an unrankable parcel
compute_conviction_no_bonus(ds_composite, mc_raw, mc_count, flag_vacancy, vac_conf, usps_error, fp) ==
    LET ds_comp == IF ds_composite = Null THEN None
                   ELSE clamp(QDiv(Q(ds_composite, 100), Q(10, 1)), Q(0, 1), Q(1, 1))
        mc_comp == IF mc_count = Null \/ mc_count = 0 THEN None
                   ELSE clamp(QDiv(Q(mc_raw, 100), Q(MC_CAP, 100)), Q(0, 1), Q(1, 1))
        vac_bonus ==
            IF flag_vacancy /\ no_error(usps_error)
            THEN LET vc == clamp(IF vac_conf # Null THEN Q(vac_conf, 100) ELSE Q(8, 10),
                                 Q(0, 1), Q(1, 1))
                 IN  QMul(Q(VAC_BONUS_MAX, 100), vc)
            ELSE Q(0, 1)
        base_sum == QAdd(IF ds_comp # None THEN Q(W_DS, 100) ELSE Q(0, 1),
                         IF mc_comp # None THEN Q(W_MC, 100) ELSE Q(0, 1))
        base == QDiv(QMul(Q(10, 1),
                          QAdd(QMul(Q(W_DS, 100), IF ds_comp # None THEN ds_comp ELSE Q(0, 1)),
                               QMul(Q(W_MC, 100), IF mc_comp # None THEN mc_comp ELSE Q(0, 1)))),
                     base_sum)
    IN  IF base_sum = Q(0, 1)
        THEN [score |-> Null, base |-> Null, bonus |-> 0, components |-> <<>>]
        ELSE [score |-> round2(clamp(QAdd(base, vac_bonus), Q(0, 1), Q(10, 1)), fp),
              base  |-> round2(base, 0),
              bonus |-> round2(vac_bonus, 0),
              components |->
                 (IF ds_comp # None THEN <<"DS">> ELSE <<>>)
                 \o (IF mc_comp # None THEN <<"MC">> ELSE <<>>)
                 \o (IF vac_bonus.n > 0 THEN <<"VAC">> ELSE <<>>)]

\* compute_conviction: (conviction_score, base_score, vacancy_bonus,
\* components_list), None being Null. "not usps_error" holds of None and '';
\* "ds_comp or 0" gives 0 for None and for 0.0. fp is the side on which the
\* float sum base + vac_bonus lies of its exact value; base alone is never
\* half-way between two hundredths, and the bonus is only for the confidence
\* 0.75, which a float holds exactly.
compute_conviction(ds_composite, mc_raw, mc_count, flag_vacancy, vac_conf, usps_error, fp) ==
    LET ds_comp == IF ds_composite = Null THEN None
                   ELSE clamp(QDiv(Q(ds_composite, 100), Q(10, 1)), Q(0, 1), Q(1, 1))
        mc_comp == IF mc_count = Null \/ mc_count = 0 THEN None
                   ELSE clamp(QDiv(Q(mc_raw, 100), Q(MC_CAP, 100)), Q(0, 1), Q(1, 1))
        vac_bonus ==
            IF flag_vacancy /\ no_error(usps_error)
            THEN LET vc == clamp(IF vac_conf # Null THEN Q(vac_conf, 100) ELSE Q(8, 10),
                                 Q(0, 1), Q(1, 1))
                 IN  QMul(Q(VAC_BONUS_MAX, 100), vc)
            ELSE Q(0, 1)
        base_sum == QAdd(IF ds_comp # None THEN Q(W_DS, 100) ELSE Q(0, 1),
                         IF mc_comp # None THEN Q(W_MC, 100) ELSE Q(0, 1))
        base == QDiv(QMul(Q(10, 1),
                          QAdd(QMul(Q(W_DS, 100), IF ds_comp # None THEN ds_comp ELSE Q(0, 1)),
                               QMul(Q(W_MC, 100), IF mc_comp # None THEN mc_comp ELSE Q(0, 1)))),
                     base_sum)
    IN  IF base_sum = Q(0, 1)
        THEN [score |-> Null, base |-> Null, bonus |-> round2(vac_bonus, 0), components |-> <<>>]
        ELSE [score |-> round2(clamp(QAdd(base, vac_bonus), Q(0, 1), Q(10, 1)), fp),
              base  |-> round2(base, 0),
              bonus |-> round2(vac_bonus, 0),
              components |->
                 (IF ds_comp # None THEN <<"DS">> ELSE <<>>)
                 \o (IF mc_comp # None THEN <<"MC">> ELSE <<>>)
                 \o (IF vac_bonus.n > 0 THEN <<"VAC">> ELSE <<>>)]

\* the argument tuples compute_conviction is applied to: composites in
\* [0, 10], confidences in [0, 1], signal sums below and above MC_CAP
ConvictionArgs ==
    [ ds_composite : {Null, 0, 600, 733, 1000},
      mc_raw       : {0, 420, 900},
      mc_count     : {Null, 0, 3},
      flag_vacancy : BOOLEAN,
      vac_conf     : {Null, 0, 75, 90},
      usps_error   : {NULL, "", "http_404"} ]

\* one call of compute_conviction, as compute_all_scores makes it per parcel
ComputeConviction ==
    /\ conviction.at = "call"
    /\ \E fp \in {0 - 1, 0, 1} :
         conviction' =
            [conviction EXCEPT
               !.at = "returned",
               !.result = LET a == conviction.args
                          IN  compute_conviction(a.ds_composite, a.mc_raw, a.mc_count,
                                                 a.flag_vacancy, a.vac_conf,
                                                 a.usps_error, fp)]
    /\ UNCHANGED <<gis_parcels_core, now, runVars, usps_loaded, usps_batch,
                   usps_rate_limited, work_queue, consumers, usps_journal,
                   auxButConviction>>

InitConviction ==
    /\ gis_parcels_core = [p \in Parcels |-> BlankRow(1, "12 OAK ST", NoFema, Null)]
    /\ now = 1
    /\ limit = 0
    /\ RunIdle
    /\ usps_loaded = {}
    /\ usps_batch = <<>>
    /\ usps_rate_limited = {}
    /\ work_queue = <<>>
    /\ usps_journal = <<>>
    /\ consumers = [a \in Accounts |-> NoConsumer]
    /\ JournalIdle
    /\ BreakerIdle
    /\ LockIdle
    /\ LaterIdle("")
    /\ \E a \in ConvictionArgs :
          conviction = [at |-> "call", args |-> a, result |-> <<>>]

NextConviction == ComputeConviction

SpecConviction == InitConviction /\ [][NextConviction]_vars

\* ------------------------------------------------ conviction: properties
\* the call has returned
Returned == conviction.at = "returned"

\* neither component is present: no composite and no motivation signal
Unrankable == conviction.args.ds_composite = Null /\ conviction.args.mc_count \in {0, Null}

\* the vacancy bonus applies: flagged vacant and no USPS error
BonusApplies == conviction.args.flag_vacancy /\ conviction.args.usps_error \in {NULL, ""}

\* 2.5 * vac_conf (0.8 when the confidence is NULL), in hundredths of
\* hundredths
ExpectedBonus ==
    IF BonusApplies
    THEN 250 * (IF conviction.args.vac_conf = Null THEN 80 ELSE conviction.args.vac_conf)
    ELSE 0

\* num / den to the nearest integer, a tie going to the even one
Nearest(num, den) ==
    IF 2 * (num % den) < den THEN num \div den
    ELSE IF 2 * (num % den) > den THEN (num \div den) + 1
    ELSE (num \div den) + ((num \div den) % 2)

\* C18: compute_conviction returns a NULL conviction score if and only if
\* both components are missing (distress_composite NULL and mc_count 0 or
\* NULL), whatever the vacancy inputs are.
C18_NullIffNoDsNoMc ==
    Returned => (conviction.result.score = Null <=> Unrankable)

\* a parcel with an error-free vacancy flag and no component got NULL
C18_Witness ==
    /\ Returned /\ Unrankable /\ BonusApplies
    /\ conviction.args.mc_count = Null
    /\ conviction.result.score = Null

C20_MatchesReference ==
    (Returned /\ ~Unrankable) =>
       LET a     == conviction.args
           hasDS == a.ds_composite # Null
           hasMC == a.mc_count \notin {0, Null}
           ds_c  == IF hasDS THEN Min(7000, GREATEST(0, 7 * a.ds_composite)) ELSE 0
           mc_c  == IF hasMC THEN Min(7000, GREATEST(0, 10 * a.mc_raw)) ELSE 0
           denom == (IF hasDS THEN 35 ELSE 0) + (IF hasMC THEN 40 ELSE 0)
           base  == 100 * (35 * ds_c + 40 * mc_c)
           total == Min(700000 * denom, base + 7 * ExpectedBonus * denom)
       IN  /\ 2 * conviction.result.score * 700 * denom >= 2 * total - 700 * denom
           /\ 2 * conviction.result.score * 700 * denom <= 2 * total + 700 * denom
           /\ conviction.result.base = Nearest(base, 700 * denom)
           /\ conviction.result.bonus = Nearest(ExpectedBonus, 100)
           /\ conviction.result.score >= 0 /\ conviction.result.score <= 1000
           /\ (hasDS /\ ~hasMC /\ ~BonusApplies) =>
                 conviction.result.score = a.ds_composite
           /\ conviction.result.components =
                 (IF hasDS THEN <<"DS">> ELSE <<>>)
                 \o (IF hasMC THEN <<"MC">> ELSE <<>>)
                 \o (IF ExpectedBonus > 0 THEN <<"VAC">> ELSE <<>>)

\* composite 6.0, no signals, no vacancy flag: conviction 6.00 from DS alone
C20_Witness ==
    /\ Returned
    /\ conviction.args.ds_composite = 600
    /\ conviction.args.mc_count = 0
    /\ ~conviction.args.flag_vacancy
    /\ conviction.result.score = 600
    /\ conviction.result.components = <<"DS">>

\* ------------------------------------------- several runs on one store
\* batch_ndvi_scan.py and batch_historical_slope.py take no lock: a second run
\* of a pass may load its parcels while a first one still holds results it has
\* not written, and compute_composite_scores may run between any two writes.
\* held.scan[p] / held.slope[p] count the running runs that loaded p and have
\* not written it; held.op is the statement that ran last, held.wrote the
\* parcel of the last pass-1 write and held.naip what the imagery endpoint had
\* done for it.

\* runs of one pass that may be running at once
MaxOverlap == 2

\* the parcels with coordinates
NumLots == 1

Lots == 1..NumLots

\* what these runs leave alone
heldRest == <<now, runVars, usps_loaded, usps_batch, usps_rate_limited,
              work_queue, consumers, usps_journal, auxButHeld>>

NothingHeld ==
    [scan  |-> [p \in Parcels |-> 0],
     slope |-> [p \in Parcels |-> 0],
     op    |-> "none",
     wrote |-> 0,
     naip  |-> "none"]

\* a run starts: it selects its parcels and holds each of them
hold(counts, selected) ==
    [p \in Parcels |-> IF \E i \in 1..Len(selected) : selected[i] = p
                       THEN counts[p] + 1 ELSE counts[p]]

\* main() of batch_ndvi_scan.py up to the executor, in one more process
ScanRunLoads ==
    /\ \A p \in Parcels : held.scan[p] < MaxOverlap
    /\ get_unscanned_parcels(gis_parcels_core, 0) # <<>>
    /\ held' = [held EXCEPT
                  !.scan = hold(@, get_unscanned_parcels(gis_parcels_core, 0)),
                  !.op = "load"]
    /\ UNCHANGED <<gis_parcels_core, heldRest>>

\* a pass-1 run flushes the row of one parcel it holds
ScanRunWrites(p) ==
    /\ held.scan[p] > 0
    /\ \E resp \in NaipResponses, fema \in FloodAnswers \cup {Absent},
          raised \in BOOLEAN :
         /\ gis_parcels_core' =
               batch_update_scan_results(gis_parcels_core,
                   <<scan_single_parcel(p, resp, fema, raised, now)>>, 1)
         /\ held' = [held EXCEPT !.scan[p] = @ - 1, !.op = "scan",
                                 !.wrote = p, !.naip = resp.kind]
    /\ UNCHANGED heldRest

\* main() of batch_historical_slope.py up to the executor, in one more process
SlopeRunLoads ==
    /\ \A p \in Parcels : held.slope[p] < MaxOverlap
    /\ get_parcels_needing_slope(gis_parcels_core, 0) # <<>>
    /\ held' = [held EXCEPT
                  !.slope = hold(@, get_parcels_needing_slope(gis_parcels_core, 0)),
                  !.op = "load"]
    /\ UNCHANGED <<gis_parcels_core, heldRest>>

\* a slope run flushes the row of one parcel it holds (nothing when
\* compute_slope_for_parcel returned None)
SlopeRunWrites(p) ==
    /\ held.slope[p] > 0
    /\ \E result \in { compute_slope_for_parcel(p, gis_parcels_core[p], historical, raised) :
                          historical \in HistoricalReadings, raised \in BOOLEAN } :
         gis_parcels_core' =
            IF result = NoResult THEN gis_parcels_core
            ELSE batch_update_slope_results(gis_parcels_core, <<result>>, 1)
    /\ held' = [held EXCEPT !.slope[p] = @ - 1, !.op = "slope"]
    /\ UNCHANGED heldRest

\* compute_composite_scores, at the end of a slope run or with --composite-only
CompositeRuns ==
    /\ gis_parcels_core' = compute_composite_scores(gis_parcels_core)
    /\ held' = [held EXCEPT !.op = "composite"]
    /\ UNCHANGED heldRest

InitStore ==
    /\ gis_parcels_core =
          [p \in Parcels |-> BlankRow(IF p \in Lots THEN 1 ELSE Null,
                                      "12 OAK ST", NoFema, Null)]
    /\ now = 1
    /\ limit = 0
    /\ RunIdle
    /\ usps_loaded = {}
    /\ usps_batch = <<>>
    /\ usps_rate_limited = {}
    /\ work_queue = <<>>
    /\ usps_journal = <<>>
    /\ consumers = [a \in Accounts |-> NoConsumer]
    /\ JournalIdle
    /\ BreakerIdle
    /\ LockIdle
    /\ ConvictionIdle
    /\ LaterIdle("held")
    /\ held = NothingHeld

NextStore ==
    \/ ScanRunLoads
    \/ \E p \in Parcels : ScanRunWrites(p)
    \/ SlopeRunLoads
    \/ \E p \in Parcels : SlopeRunWrites(p)
    \/ CompositeRuns

SpecStore == InitStore /\ [][NextStore]_vars

\* ------------------------------------------- several runs: properties
\* C24: in pass 1 a parcel whose aerial collector failed with a transient
\* error (5xx, 429, timeout, DNS) keeps scan_date NULL after the flush and is
\* returned by get_unscanned_parcels on the next run.
C24_TransientStaysUnscanned ==
    (held.op = "scan" /\ held.naip \in TransientKinds) =>
        /\ gis_parcels_core[held.wrote].scan_date = Null
        /\ \E i \in 1..Len(get_unscanned_parcels(gis_parcels_core, 0)) :
              get_unscanned_parcels(gis_parcels_core, 0)[i] = held.wrote

\* C21: in every store state reachable by pass-1 updates, slope updates and
\* compute_composite_scores runs, a parcel with a non-NULL distress_composite
\* has a non-NULL ndvi_slope_5yr or a non-NULL fema_zone.
C21_CompositeHasAnInput ==
    \A p \in Parcels :
        gis_parcels_core[p].distress_composite # Null =>
            \/ gis_parcels_core[p].ndvi_slope_5yr # Null
            \/ gis_parcels_core[p].fema_zone # NULL

\* ------------------------------------------- compute_composite_scores alone
\* rows as the slope pass left them: with or without a slope, with the
\* percentile and composite of an earlier compute_composite_scores run or
\* none, with or without a flood zone
RankedRows ==
    { [BlankRow(1, "12 OAK ST", fema, composite) EXCEPT
          !.ndvi_score = 60, !.ndvi_date = 1, !.ndvi_category = "moderate",
          !.scan_date = 1, !.scan_pass = 1, !.sentinel_worthy = TRUE,
          !.ndvi_slope_5yr = slope,
          !.ndvi_history_count = IF slope = Null THEN 1 ELSE 2,
          !.ndvi_slope_pctile = IF slope = Null \/ composite = Null THEN Null ELSE 0] :
        slope \in {Null, 0 - 2, 0, 3},
        composite \in {Null, 0},
        fema \in {NoFema, [sfha |-> "TRUE", risk |-> "high", zone |-> "AE"]} }

InitRank ==
    /\ gis_parcels_core \in [Parcels -> RankedRows]
    /\ now = 1
    /\ limit = 0
    /\ RunIdle
    /\ usps_loaded = {}
    /\ usps_batch = <<>>
    /\ usps_rate_limited = {}
    /\ work_queue = <<>>
    /\ usps_journal = <<>>
    /\ consumers = [a \in Accounts |-> NoConsumer]
    /\ JournalIdle
    /\ BreakerIdle
    /\ LockIdle
    /\ ConvictionIdle
    /\ LaterIdle("held")
    /\ held = NothingHeld

NextRank == CompositeRuns

SpecRank == InitRank /\ [][NextRank]_vars

\* ------------------------------------ compute_composite_scores: properties
\* the parcels that take part in the ranking
Sloped == {p \in Parcels : gis_parcels_core[p].ndvi_slope_5yr # Null}

\* the ascending sorts of the county's non-NULL slopes: each gives every
\* ranked parcel its own 0-indexed position
AscendingSorts ==
    {pos \in [Sloped -> 0..(Cardinality(Sloped) - 1)] :
        /\ \A p, q \in Sloped : p # q => pos[p] # pos[q]
        /\ \A p, q \in Sloped :
              gis_parcels_core[p].ndvi_slope_5yr < gis_parcels_core[q].ndvi_slope_5yr
                 => pos[p] < pos[q]}

\* the lowest position among the parcels that share p's slope
FirstPosition(pos, p) ==
    LET tied == {pos[q] : q \in {r \in Sloped : gis_parcels_core[r].ndvi_slope_5yr =
                                                  gis_parcels_core[p].ndvi_slope_5yr}}
    IN  CHOOSE m \in tied : \A x \in tied : m <= x

\* C22 as stated: after compute_composite_scores some ascending sort of the
\* non-NULL slopes, with distinct positions for equal slopes, gives every
\* ranked parcel ndvi_slope_pctile = position / (count - 1) * 100.
C22_DistinctPositions ==
    (held.op = "composite" /\ Cardinality(Sloped) > 1) =>
        \E pos \in AscendingSorts :
            \A p \in Sloped :
                gis_parcels_core[p].ndvi_slope_pctile * (Cardinality(Sloped) - 1)
                    = 100 * pos[p]

\* C22 amended: after compute_composite_scores every parcel with a slope has
\* ndvi_slope_pctile = first / (count - 1) * 100, first being the lowest
\* 0-indexed position of its slope in the ascending sort of the non-NULL
\* slopes (equal slopes share it; 0 when one parcel only has a slope), and a
\* parcel with a NULL slope has no percentile.
C22_TiesShareAPercentile ==
    held.op = "composite" =>
        /\ \A pos \in AscendingSorts : \A p \in Sloped :
              IF Cardinality(Sloped) = 1
              THEN gis_parcels_core[p].ndvi_slope_pctile = 0
              ELSE gis_parcels_core[p].ndvi_slope_pctile * (Cardinality(Sloped) - 1)
                      = 100 * FirstPosition(pos, p)
        /\ \A p \in Parcels \ Sloped : gis_parcels_core[p].ndvi_slope_pctile = Null

\* two parcels with the same slope were ranked
C22_Witness ==
    /\ held.op = "composite"
    /\ \E p, q \in Sloped :
          /\ p # q
          /\ gis_parcels_core[p].ndvi_slope_5yr = gis_parcels_core[q].ndvi_slope_5yr
          /\ gis_parcels_core[p].ndvi_slope_pctile = gis_parcels_core[q].ndvi_slope_pctile

\* ------------------------------------------------ generate_all_flags alone
\* what the evaluators can be handed. naip: the baseline dict, with or without
\* errors; sentinel: the trend dict; fema: fema_flood's dict (its errors also
\* hold a failed map export, next to a zone); usps: check_address's result.
NaipOutputs ==
    {Absent} \cup
    [current_ndvi : {Null, 20, 60, 70}, mean_historical_ndvi : {Null, 40, 90},
     errors : BOOLEAN]

SentinelOutputs ==
    {Absent} \cup
    { [trend_direction |-> d.dir, trend_slope |-> 1, latest_ndvi |-> d.latest,
       earliest_ndvi |-> d.earliest, errors |-> e] :
        d \in { [dir |-> "increasing", latest |-> 60, earliest |-> 30],
                [dir |-> "decreasing", latest |-> 30, earliest |-> 60] },
        e \in BOOLEAN }

FemaOutputs ==
    {Absent} \cup FloodAnswers \cup
    { [flood_zone |-> "AE", risk_level |-> "high", is_sfha |-> TRUE,
       errors |-> TRUE] }

UspsOutputs == {Absent} \cup { check_address(resp) : resp \in UspsResponses }

evaluatedRest == <<gis_parcels_core, now, runVars, usps_loaded, usps_batch,
                   usps_rate_limited, work_queue, consumers, usps_journal,
                   auxButEvaluated>>

\* one call of generate_all_flags
GenerateAllFlags ==
    /\ evaluated.at = "call"
    /\ evaluated' =
          [evaluated EXCEPT
             !.at = "returned",
             !.flags = generate_all_flags(evaluated.naip, evaluated.sentinel,
                                          evaluated.fema, evaluated.usps)]
    /\ UNCHANGED evaluatedRest

InitFlags ==
    /\ gis_parcels_core = [p \in Parcels |-> BlankRow(1, "12 OAK ST", NoFema, Null)]
    /\ now = 1
    /\ limit = 0
    /\ RunIdle
    /\ usps_loaded = {}
    /\ usps_batch = <<>>
    /\ usps_rate_limited = {}
    /\ work_queue = <<>>
    /\ usps_journal = <<>>
    /\ consumers = [a \in Accounts |-> NoConsumer]
    /\ JournalIdle
    /\ BreakerIdle
    /\ LockIdle
    /\ ConvictionIdle
    /\ LaterIdle("evaluated")
    /\ \E n \in NaipOutputs, s \in SentinelOutputs, f \in FemaOutputs, u \in UspsOutputs :
          evaluated = [at |-> "call", naip |-> n, sentinel |-> s, fema |-> f,
                       usps |-> u, flags |-> {}]

NextFlags == GenerateAllFlags

SpecFlags == InitFlags /\ [][NextFlags]_vars

\* ------------------------------------------ generate_all_flags: properties
\* a collector output that is absent or carries an error
Failed(x) ==
    \/ absent(x)
    \/ IF "errors" \in DOMAIN x THEN x.errors ELSE x.error # NULL

\* the call as it would be had every failed collector returned nothing
WithoutFailed(x) == IF Failed(x) THEN Absent ELSE x

\* C23: no evaluator fires on a failed collector output: when every output an
\* evaluator reads is absent or carries an error its flag is false, and the
\* flags returned are those of the call with each failed output left out.
C23_FailedCollectorNeverFires ==
    evaluated.at = "returned" =>
        /\ (Failed(evaluated.naip) /\ Failed(evaluated.sentinel)) =>
              evaluated.flags \cap {"vegetation_overgrowth", "structural_change"} = {}
        /\ Failed(evaluated.naip) => "vegetation_neglect" \notin evaluated.flags
        /\ Failed(evaluated.fema) => "flood_risk" \notin evaluated.flags
        /\ Failed(evaluated.usps) => "usps_vacancy" \notin evaluated.flags
        /\ evaluated.flags =
              generate_all_flags(WithoutFailed(evaluated.naip),
                                 WithoutFailed(evaluated.sentinel),
                                 WithoutFailed(evaluated.fema),
                                 WithoutFailed(evaluated.usps))

\* a dense NDVI without history, a flood zone and a rising trend, each from a
\* collector that reported an error, and a rate-limited address check: no flag
C23_Witness ==
    /\ evaluated.at = "returned"
    /\ ~absent(evaluated.naip) /\ evaluated.naip.errors
    /\ evaluated.naip.current_ndvi = 70
    /\ evaluated.naip.mean_historical_ndvi = Null
    /\ ~absent(evaluated.fema) /\ evaluated.fema.errors
    /\ evaluated.fema.flood_zone = "AE"
    /\ ~absent(evaluated.sentinel) /\ evaluated.sentinel.errors
    /\ evaluated.sentinel.trend_direction = "increasing"
    /\ ~absent(evaluated.usps) /\ evaluated.usps.error = "rate_limited"
    /\ evaluated.flags = {}

\* ------------------------------------------------------------ split_situs
\* A situs is the sequence of its whitespace-separated tokens (what
\* situs.strip().split() returns); a street or a city is a sequence of tokens
\* too (" ".join), and None is the empty sequence.

\* the codes of _STATE_CODES the model uses
STATE_CODES == {"NC", "CT", "TN"}

AMBIGUOUS_STATE_SUFFIX == {"CT", "IN", "AL", "ME", "OR"}

\* the members of street_suffixes the model uses
street_suffixes == {"ST", "RD", "DR", "CT", "PARK", "PT"}

skip_words == {"UNINC", "UNINCORP", "UNINCORPORATED", "COUNTY", "TWP", "TOWNSHIP"}

\* str.upper() on the tokens of the model
upper(token) ==
    CASE token = "nc" -> "NC"
      [] token = "ct" -> "CT"
      [] OTHER -> token

\* str.rstrip(",.") on the tokens of the model
rstrip(token) ==
    CASE token = "ST." -> "ST"
      [] token = "PT." -> "PT"
      [] token = "CHARLOTTE," -> "CHARLOTTE"
      [] OTHER -> token

\* str.isdigit() on the tokens of the model
isdigit(token) == token \in {"12", "103", "51", "28083", "37201"}

\* len(last) == 5 and last.isdigit()
is_zip5(token) == token \in {"28083", "37201"}

\* len(last) == 10 and last[5] == "-" and both halves digits
is_zip_plus4(token) == token \in {"28083-1234", "37201-0042"}

\* a ZIP+4 token kept whole
zip_code_whole(token) == token

\* zip_code = last, or last[:5] of a ZIP+4
zip_code_of(token) ==
    CASE token = "28083-1234" -> "28083"
      [] token = "37201-0042" -> "37201"
      [] OTHER -> token

\* the 1-based index at which the walk back from the state stops: the last
\* token before the state that is a street suffix, the first token excluded;
\* 1 when there is none
walk_back(parts) ==
    LET stops == {i \in 2..(Len(parts) - 1) :
                     rstrip(upper(parts[i])) \in street_suffixes}
    IN  IF stops = {} THEN 1
        ELSE CHOOSE i \in stops : \A j \in stops : j <= i

\* split_situs after the ZIP was stripped
split_stateful(parts, zip_code, fallback_state, fallback_city) ==
    LET n     == Len(parts)
        state == upper(parts[n])
        idx   == walk_back(parts)
    IN
    IF ~(n >= 3 /\ state \in STATE_CODES)
    THEN [street |-> parts, city |-> fallback_city, state |-> fallback_state,
          zip_code |-> zip_code]
    ELSE IF /\ state \in AMBIGUOUS_STATE_SUFFIX
            /\ fallback_state # NULL
            /\ state # upper(fallback_state)
    THEN [street |-> parts, city |-> fallback_city, state |-> fallback_state,
          zip_code |-> zip_code]
    ELSE IF upper(parts[n - 1]) \in skip_words \/ isdigit(upper(parts[n - 1]))
    THEN [street |-> SubSeq(parts, 1, n - 2), city |-> fallback_city,
          state |-> state, zip_code |-> zip_code]
    ELSE IF idx < n - 1
    THEN [street |-> SubSeq(parts, 1, idx), city |-> SubSeq(parts, idx + 1, n - 1),
          state |-> state, zip_code |-> zip_code]
    ELSE [street |-> SubSeq(parts, 1, n - 2), city |-> <<parts[n - 1]>>,
          state |-> state, zip_code |-> zip_code]

\* split_situs(situs, fallback_state, fallback_city)
split_situs(parts, fallback_state, fallback_city) ==
    IF parts = <<>>
    THEN [street |-> parts, city |-> fallback_city, state |-> fallback_state,
          zip_code |-> NULL]
    ELSE LET last    == parts[Len(parts)]
             has_zip == is_zip5(last) \/ is_zip_plus4(last)
             zip_code == IF has_zip THEN zip_code_of(last) ELSE NULL
             rest    == IF has_zip THEN SubSeq(parts, 1, Len(parts) - 1) ELSE parts
         IN  IF rest = <<>>
             THEN [street |-> parts, city |-> fallback_city,
                   state |-> fallback_state, zip_code |-> zip_code]
             ELSE split_stateful(rest, zip_code, fallback_state, fallback_city)

\* '<street tokens> <CITY TOKENS> <STATE>' with an optional ZIP token
format_situs(street, city, state, zip) ==
    street \o city \o <<state>> \o (IF zip = NULL THEN <<>> ELSE <<zip>>)

\* the components the model formats: streets that end in a suffix, cities of
\* one or two tokens, two states, no ZIP, a ZIP or a ZIP+4
Streets ==
    { <<"12", "OAK", "ST">>, <<"12", "PARK", "RD">>, <<"OAK", "CT">> }

Cities ==
    { <<"CHARLOTTE">>, <<"KINGS", "MOUNTAIN">>, <<"ST.", "LOUIS">>,
      <<"LAKE", "PARK">>, <<"UNINC">>, <<"AREA", "51">> }

parsedRest == <<gis_parcels_core, now, runVars, usps_loaded, usps_batch,
                usps_rate_limited, work_queue, consumers, usps_journal,
                auxButParsed>>

\* one call of split_situs on the formatted situs
SplitSitus ==
    /\ parsed.at = "call"
    /\ parsed' =
          [parsed EXCEPT
             !.at = "returned",
             !.result = split_situs(format_situs(parsed.street, parsed.city,
                                                 parsed.state, parsed.zip),
                                    parsed.fallback_state, parsed.fallback_city)]
    /\ UNCHANGED parsedRest

InitSitus ==
    /\ gis_parcels_core = [p \in Parcels |-> BlankRow(1, "12 OAK ST", NoFema, Null)]
    /\ now = 1
    /\ limit = 0
    /\ RunIdle
    /\ usps_loaded = {}
    /\ usps_batch = <<>>
    /\ usps_rate_limited = {}
    /\ work_queue = <<>>
    /\ usps_journal = <<>>
    /\ consumers = [a \in Accounts |-> NoConsumer]
    /\ JournalIdle
    /\ BreakerIdle
    /\ LockIdle
    /\ ConvictionIdle
    /\ LaterIdle("parsed")
    /\ \E street \in Streets, city \in Cities, state \in {"NC", "CT"},
          zip \in {NULL, "28083", "37201-0042"},
          fs \in {NULL, "nc", "ct"}, fc \in {<<>>, <<"GASTONIA">>} :
          parsed = [at |-> "call", street |-> street, city |-> city,
                    state |-> state, zip |-> zip,
                    fallback_state |-> fs, fallback_city |-> fc,
                    result |-> <<>>]

NextSitus == SplitSitus

SpecSitus == InitSitus /\ [][NextSitus]_vars

\* ------------------------------------------------ split_situs: properties
Tokens(seq) == {seq[i] : i \in 1..Len(seq)}

\* the components come back: street, city, state and the 5-digit ZIP
RoundTrip ==
    /\ parsed.result.street = parsed.street
    /\ parsed.result.city = parsed.city
    /\ parsed.result.state = parsed.state
    /\ parsed.result.zip_code =
          (IF parsed.zip = "37201-0042" THEN "37201" ELSE parsed.zip)

\* the input is canonical in the claim's words: no city token is in the
\* suffix set or in the skip-word set (the street ends in a suffix)
Canonical ==
    /\ parsed.street[Len(parsed.street)] \in street_suffixes
    /\ Tokens(parsed.city) \cap (street_suffixes \cup skip_words) = {}

\* C25 as stated: for any canonical '<street> <CITY> <STATE>' with an
\* optional ZIP or ZIP+4 token split_situs returns exactly the original
\* street, city, state and 5-digit zip.
C25_CanonicalRoundTrip ==
    (parsed.at = "returned" /\ Canonical) => RoundTrip

\* C25 amended: the same, for a canonical input none of whose city tokens is
\* a suffix once upper-cased and stripped of trailing commas and periods,
\* whose last city token is not all digits, and whose state is not one of the
\* ambiguous codes CT, IN, AL, ME, OR while a different fallback_state is
\* passed.
C25_RoundTripUnlessAmbiguous ==
    ( /\ parsed.at = "returned"
      /\ Canonical
      /\ \A t \in Tokens(parsed.city) : rstrip(upper(t)) \notin street_suffixes
      /\ ~isdigit(parsed.city[Len(parsed.city)])
      /\ ~ ( /\ parsed.state \in AMBIGUOUS_STATE_SUFFIX
             /\ parsed.fallback_state # NULL
             /\ upper(parsed.fallback_state) # parsed.state ) )
    => RoundTrip

\* C34: a last token that is one of the ambiguous codes CT, IN, AL, ME, OR is
\* taken as the state only when it equals the supplied fallback state; when
\* the fallback state disagrees or none is supplied the token stays part of
\* the street and city and state come from the fallbacks.
C34_AmbiguousNeedsFallback ==
    (parsed # <<>> /\ parsed.at = "returned"
        /\ parsed.state \in AMBIGUOUS_STATE_SUFFIX) =>
       IF parsed.fallback_state # NULL /\ upper(parsed.fallback_state) = parsed.state
       THEN parsed.result.state = parsed.state
       ELSE /\ parsed.result.street = parsed.street \o parsed.city \o <<parsed.state>>
            /\ parsed.result.city = parsed.fallback_city
            /\ parsed.result.state = parsed.fallback_state

\* a two-token city after a street with a suffix in its middle, with a ZIP+4
C25_Witness ==
    /\ parsed.at = "returned"
    /\ parsed.street = <<"12", "PARK", "RD">>
    /\ parsed.city = <<"KINGS", "MOUNTAIN">>
    /\ parsed.zip = "37201-0042"
    /\ parsed.fallback_state = "nc"
    /\ parsed.result.city = <<"KINGS", "MOUNTAIN">>
    /\ parsed.result.zip_code = "37201"

\* ------------------------------------------------ the result buffer
\* results_buffer under the consumer threads and the main thread, one step
\* per critical section of buffer_lock. A result is the number of the check
\* that produced it.
MaxAppends == 3        \* results appended in one behaviour

MainThread == 0

BufferThreads == Accounts \cup {MainThread}

\* flush_buffer's critical section with a non-empty buffer:
\* batch = list(results_buffer); results_buffer.clear()
take_batch_keeping(buf) == [batch |-> buf, buffer |-> buf]

take_batch(buf) == [batch |-> buf, buffer |-> <<>>]

bufferedRest == <<gis_parcels_core, now, limit, pc, runs, parcels, futures,
                  collected, shutdown_event, dry_run, committed, completed,
                  drained, late_calls, usps_loaded, usps_batch,
                  usps_rate_limited, work_queue, consumers, usps_journal,
                  auxButBuffering>>

\* consumer_thread: with buffer_lock: results_buffer.append(result)
BufferAppend(a) ==
    /\ a \in Accounts
    /\ buffering.at[a] = "idle"
    /\ buffering.appended < MaxAppends
    /\ results_buffer' = Append(results_buffer, buffering.appended + 1)
    /\ buffering' = [buffering EXCEPT !.appended = @ + 1,
                                      !.at[a] = "appended"]
    /\ UNCHANGED bufferedRest

\* consumer_thread: if len(results_buffer) >= flush_every: flush_buffer(...)
\* (the length is read outside the lock)
BufferThreshold(a) ==
    /\ a \in Accounts
    /\ buffering.at[a] = "appended"
    /\ buffering' = [buffering EXCEPT
          !.at[a] = IF Len(results_buffer) >= FlushEvery
                    THEN "flush" ELSE "idle"]
    /\ UNCHANGED <<results_buffer, bufferedRest>>

\* main(): the final flush, called once the joins have returned or timed
\* out, so consumers may still be running
BufferFinalFlush ==
    /\ buffering.at[MainThread] = "idle"
    /\ buffering' = [buffering EXCEPT !.at[MainThread] = "flush"]
    /\ UNCHANGED <<results_buffer, bufferedRest>>

\* flush_buffer, the critical section: return on an empty buffer, else take
\* the batch and clear the buffer
BufferTake(t) ==
    /\ buffering.at[t] = "flush"
    /\ IF results_buffer = <<>>
       THEN /\ buffering' = [buffering EXCEPT
                  !.at[t] = IF t = MainThread THEN "done" ELSE "idle"]
            /\ UNCHANGED results_buffer
       ELSE LET taken == take_batch(results_buffer)
            IN  /\ results_buffer' = taken.buffer
                /\ buffering' = [buffering EXCEPT !.at[t] = "write",
                                                  !.batch[t] = taken.batch]
    /\ UNCHANGED bufferedRest

\* flush_buffer outside the lock: the batch is handed to
\* batch_update_usps_results; when the update raises the batch is backed up
\* and put back at the front of the buffer under the lock (extendleft
\* reverses it)
BufferWrite(t) ==
    /\ buffering.at[t] = "write"
    /\ \E raised \in BOOLEAN :
         /\ buffering' = [buffering EXCEPT
               !.at[t] = IF t = MainThread THEN "done" ELSE "idle",
               !.batch[t] = <<>>,
               !.handed = Append(@, buffering.batch[t]),
               !.raised = @ \/ raised]
         /\ results_buffer' = IF raised
                              THEN Reverse(buffering.batch[t]) \o results_buffer
                              ELSE results_buffer
    /\ UNCHANGED bufferedRest

InitBuffer ==
    /\ gis_parcels_core = [p \in Parcels |-> BlankRow(1, "12 OAK ST", NoFema, Null)]
    /\ now = 1
    /\ limit = 0
    /\ RunIdle
    /\ usps_loaded = {}
    /\ usps_batch = <<>>
    /\ usps_rate_limited = {}
    /\ work_queue = <<>>
    /\ usps_journal = <<>>
    /\ consumers = [a \in Accounts |-> NoConsumer]
    /\ JournalIdle
    /\ BreakerIdle
    /\ LockIdle
    /\ ConvictionIdle
    /\ LaterIdle("buffering")
    /\ buffering = [at |-> [t \in BufferThreads |-> "idle"],
                    batch |-> [t \in BufferThreads |-> <<>>],
                    handed |-> <<>>,
                    appended |-> 0,
                    raised |-> FALSE]

NextBuffer ==
    \/ \E a \in Accounts : BufferAppend(a)
    \/ \E a \in Accounts : BufferThreshold(a)
    \/ BufferFinalFlush
    \/ \E t \in BufferThreads : BufferTake(t)
    \/ \E t \in BufferThreads : BufferWrite(t)

SpecBuffer == InitBuffer /\ [][NextBuffer]_vars

\* ------------------------------------------------ the result buffer: properties
CountIn(seq, r) == Cardinality({i \in 1..Len(seq) : seq[i] = r})

\* in how many handed batches a result is, counting repeats
TimesHanded(r) ==
    LET RECURSIVE upto(_)
        upto(n) == IF n = 0 THEN 0
                   ELSE upto(n - 1) + CountIn(buffering.handed[n], r)
    IN  upto(Len(buffering.handed))

\* in how many batches taken and not yet handed over a result is
TimesTaken(r) ==
    LET RECURSIVE over(_)
        over(ts) == IF ts = {} THEN 0
                    ELSE LET t == CHOOSE x \in ts : TRUE
                         IN  CountIn(buffering.batch[t], r) + over(ts \ {t})
    IN  over(BufferThreads)

LaterPasses == {"slope", "sentinel", "planet", "usps", "conviction"}

\* the row of a parcel after pass 1 and the passes in done, with one column
\* of the scene-comparison pass and two of the conviction pass next to the
\* columns of BlankRow
EnrichedRow(worthy, done) ==
    [BlankRow(1, "12 OAK ST", [sfha |-> "TRUE", risk |-> "high", zone |-> "AE"],
              IF "slope" \in done THEN 640 ELSE Null)
         EXCEPT !.ndvi_score = 60,
                !.ndvi_date = 1,
                !.ndvi_category = "dense",
                !.scan_date = 1,
                !.scan_pass = 1,
                !.sentinel_worthy = worthy,
                !.ndvi_slope_5yr = IF "slope" \in done THEN 5 ELSE Null,
                !.ndvi_history_count = IF "slope" \in done THEN 3 ELSE Null,
                !.ndvi_history_years = IF "slope" \in done THEN <<2018, 2020, 2022>> ELSE NULL,
                !.ndvi_slope_pctile = IF "slope" \in done THEN 50 ELSE Null,
                !.sentinel_scan_date = IF "sentinel" \in done THEN 2 ELSE Null,
                !.usps_vacant = IF "usps" \in done THEN "TRUE" ELSE NULL,
                !.usps_dpv_confirmed = IF "usps" \in done THEN "TRUE" ELSE NULL,
                !.usps_check_date = IF "usps" \in done THEN 3 ELSE Null,
                !.flag_vacancy = ("usps" \in done),
                !.vacancy_confidence = IF "usps" \in done THEN 90 ELSE Null]
    @@ [ planet_scan_date  |-> IF "planet" \in done THEN 2 ELSE Null,
           conviction_score  |-> IF "conviction" \in done THEN 700 ELSE Null,
           conviction_date   |-> IF "conviction" \in done THEN 4 ELSE Null ]

\* one pass-1 result for parcel p is written over its row
RescanWrites(p) ==
    /\ \E result \in { scan_single_parcel(p, resp, fema, raised, now) :
                          resp \in NaipResponses,
                          fema \in FloodAnswers \cup {Absent},
                          raised \in BOOLEAN } :
         gis_parcels_core' =
            batch_update_scan_results(gis_parcels_core, <<result>>, 1)
    /\ UNCHANGED <<now, runVars, usps_loaded, usps_batch, usps_rate_limited,
                   work_queue, consumers, usps_journal, auxVars>>

InitRescan ==
    /\ \E done \in SUBSET LaterPasses, worthy \in BOOLEAN :
          gis_parcels_core = [p \in Parcels |-> EnrichedRow(worthy, done)]
    /\ now = 5
    /\ limit = 0
    /\ RunIdle
    /\ usps_loaded = {}
    /\ usps_batch = <<>>
    /\ usps_rate_limited = {}
    /\ work_queue = <<>>
    /\ usps_journal = <<>>
    /\ consumers = [a \in Accounts |-> NoConsumer]
    /\ AuxIdle

NextRescan == \E p \in Parcels : RescanWrites(p)

SpecRescan == InitRescan /\ [][NextRescan]_vars

\* ------------------------------------------------ pass 1 over enriched rows: properties
\* the columns of the slope pass and the composite, of the trend pass, of the
\* scene-comparison pass, of the vacancy pass and of the conviction pass
LaterColumns(row) ==
    << row.ndvi_slope_5yr, row.ndvi_history_count, row.ndvi_history_years,
       row.ndvi_slope_pctile, row.distress_composite,
       row.sentinel_scan_date,
       row.planet_scan_date,
       row.usps_vacant, row.usps_dpv_confirmed, row.usps_address_mismatch,
       row.usps_check_date, row.usps_error,
       row.flag_vacancy, row.vacancy_confidence,
       row.conviction_score, row.conviction_date >>

\* C28: batch_update_scan_results overwrites only pass-1 columns: whatever
\* the result written, it leaves the row's slope and composite columns, the
\* trend pass's sentinel_* columns, the planet_* columns, the usps_* and
\* vacancy columns and the conviction_* columns unchanged, on the row it
\* writes and on every other row. (sentinel_worthy is a pass-1 column and is
\* among those it sets.)
C28_LaterColumnsUnchanged ==
    [][\A p \in Parcels :
          LaterColumns(gis_parcels_core'[p]) = LaterColumns(gis_parcels_core[p])]_vars

\* a row that every later pass had filled has been written by pass 1 again
\* (scan_date is the time of the second run, sentinel_worthy went to FALSE)
\* and a later-pass column of each group is still there
C28_Witness ==
    \E p \in Parcels :
       /\ gis_parcels_core[p].scan_date = 5
       /\ gis_parcels_core[p].ndvi_score = Null
       /\ gis_parcels_core[p].sentinel_worthy = FALSE
       /\ gis_parcels_core[p].distress_composite = 640
       /\ gis_parcels_core[p].sentinel_scan_date = 2
       /\ gis_parcels_core[p].planet_scan_date = 2
       /\ gis_parcels_core[p].usps_vacant = "TRUE"
       /\ gis_parcels_core[p].conviction_score = 700

\* ------------------------------------------------ one flush, statement by statement
\* A flush of pass 1, of the slope pass or of the vacancy pass on its fresh
\* connection: the UPDATEs run one by one inside the connection's open
\* transaction, conn.commit() makes a chunk visible, and an exception at any
\* point leaves through "finally: flush_conn.close()". gis_parcels_core is
\* what every other session sees.

\* flush_conn.close() with a transaction open commits it
connection_close_committing(visible, session) == session

\* flush_conn.close() with a transaction open: the server rolls it back
connection_close(visible, session) == visible

tag(update_sql, results) ==
    [i \in 1..Len(results) |-> [sql |-> update_sql, r |-> results[i]]]

\* the UPDATE statements of one batch_update_* call, in the order they run
statements(kind, results) ==
    IF kind = "usps"
    THEN tag("usps_success", success_results(results))
         \o tag("usps_transient", transient_results(results))
         \o tag("usps_permanent", permanent_results(results))
    ELSE tag(kind, results)

\* after n statements the call is at a conn.commit(): the end of a 500-row
\* chunk or of the batch; batch_update_usps_results commits once, at the end
at_commit(kind, n, len) ==
    \/ n = len
    \/ kind # "usps" /\ n > 0 /\ n % chunk_size = 0

txnRest == <<now, runVars, usps_loaded, usps_batch, usps_rate_limited,
             work_queue, consumers, usps_journal, auxButTxn>>

\* execute_batch: the next UPDATE runs inside the transaction
TxnExecute ==
    /\ txn.at = "open"
    /\ txn.done < Len(txn.stmts)
    /\ ~(at_commit(txn.kind, txn.done, Len(txn.stmts)) /\ txn.committed < txn.done)
    /\ LET stmt == txn.stmts[txn.done + 1]
       IN  txn' = [txn EXCEPT !.done = @ + 1,
                              !.session = execute(stmt.sql, @, stmt.r, now)]
    /\ UNCHANGED <<gis_parcels_core, txnRest>>

\* conn.commit(): the statements since the last commit become visible
TxnCommit ==
    /\ txn.at = "open"
    /\ at_commit(txn.kind, txn.done, Len(txn.stmts))
    /\ txn.committed < txn.done
    /\ gis_parcels_core' = txn.session
    /\ txn' = [txn EXCEPT !.committed = txn.done,
                          !.at = IF txn.done = Len(txn.stmts)
                                 THEN "returned" ELSE "open"]
    /\ UNCHANGED txnRest

\* the next statement or the commit raises (the server or the network
\* fails): the exception leaves through flush_conn.close() and flush_buffer
\* puts the batch back
TxnRaises ==
    /\ txn.at = "open"
    /\ gis_parcels_core' = connection_close(gis_parcels_core, txn.session)
    /\ txn' = [txn EXCEPT !.at = "failed", !.session = gis_parcels_core']
    /\ UNCHANGED txnRest

\* the next flush finds the whole batch in the buffer again and runs it on
\* a new connection
TxnRetry ==
    /\ txn.at = "failed"
    /\ txn.retries < 1
    /\ txn' = [txn EXCEPT !.at = "open", !.done = 0, !.committed = 0,
                          !.retries = @ + 1]
    /\ UNCHANGED <<gis_parcels_core, txnRest>>

\* the batches: a result for every parcel, of one pass
FlushBatches ==
    LET seq(f) == [i \in 1..NumParcels |-> f[i]]
    IN  { [kind |-> "scan",
           results |-> seq([p \in Parcels |->
                              scan_single_parcel(p, resp[p], Absent, FALSE, 5)])] :
             resp \in [Parcels -> {r \in NaipResponses : r.kind \in {"ok", "http_503"}}] }
        \cup
        { [kind |-> "slope",
           results |-> seq([p \in Parcels |->
                              compute_slope_for_parcel(p, EnrichedRow(TRUE, {}),
                                                       historical[p], FALSE)])] :
             historical \in [Parcels -> HistoricalReadings] }
        \cup
        { [kind |-> "usps",
           results |-> seq([p \in Parcels |-> check_single_parcel(p, resp[p])])] :
             resp \in [Parcels -> UspsResponses] }

InitChunks ==
    /\ gis_parcels_core = [p \in Parcels |-> EnrichedRow(TRUE, {})]
    /\ now = 5
    /\ limit = 0
    /\ RunIdle
    /\ usps_loaded = {}
    /\ usps_batch = <<>>
    /\ usps_rate_limited = {}
    /\ work_queue = <<>>
    /\ usps_journal = <<>>
    /\ consumers = [a \in Accounts |-> NoConsumer]
    /\ JournalIdle
    /\ BreakerIdle
    /\ LockIdle
    /\ ConvictionIdle
    /\ LaterIdle("txn")
    /\ \E batch \in FlushBatches :
          txn = [kind |-> batch.kind,
                 stmts |-> statements(batch.kind, batch.results),
                 done |-> 0,
                 committed |-> 0,
                 session |-> gis_parcels_core,
                 at |-> "open",
                 retries |-> 0]

NextChunks ==
    \/ TxnExecute
    \/ TxnCommit
    \/ TxnRaises
    \/ TxnRetry

SpecChunks == InitChunks /\ [][NextChunks]_vars

\* ------------------------------------------------ one flush: properties
\* the row a statement updates shows the statement's values
Written(stmt, store) ==
    LET row == store[stmt.r.parcel_id]
    IN  CASE stmt.sql = "scan"           -> row.scan_date = stmt.r.scan_date
          [] stmt.sql = "slope"          -> row.ndvi_history_count = stmt.r.ndvi_history_count
          [] stmt.sql = "usps_success"   -> row.usps_check_date = now
          [] stmt.sql = "usps_transient" -> row.usps_error = stmt.r.usps_error
          [] stmt.sql = "usps_permanent" -> row.usps_check_date = now

\* the statements of the chunk that statement i is in
ChunkOf(i) ==
    IF txn.kind = "usps" THEN 1..Len(txn.stmts)
    ELSE {j \in 1..Len(txn.stmts) : (j - 1) \div chunk_size = (i - 1) \div chunk_size}

MaxClock == 200        \* the clock stops here

\* --delay-max, and the timeout of the address request
delay_max == 65

request_timeout == 30

pacingRest == <<gis_parcels_core, runVars, usps_loaded, usps_batch,
                usps_rate_limited, work_queue, consumers, usps_journal,
                auxButPacing>>

\* _random_delay with target = random.uniform(delay_min, delay_max): the
\* seconds slept
random_delay(last_request, t, target) ==
    IF last_request <= 0 THEN 0
    ELSE IF t - last_request < target THEN target - (t - last_request)
    ELSE 0

\* how the request ends and how long it takes: a response (200, or a status
\* raise_for_status turns into HTTPError), a 429, requests.Timeout after the
\* timeout, a connection error at once
RequestOutcomes ==
    { [kind |-> "response",   took |-> 1],
      [kind |-> "http_429",   took |-> 1],
      [kind |-> "timeout",    took |-> request_timeout],
      [kind |-> "connection", took |-> 0] }

\* one call of check_address and the consumer's work up to the next call
CheckAddress ==
    \E target \in {delay_min, delay_max}, outcome \in RequestOutcomes,
       idle \in {0, 5} :
       LET sent     == now + random_delay(pacing.last_request, now, target)
           answered == sent + outcome.took
           slept    == IF outcome.kind = "http_429" THEN BACKOFF_START ELSE 0
       IN  /\ answered + slept + idle <= MaxClock
           /\ now' = answered + slept + idle
           /\ pacing' = [last_request |->
                            IF outcome.kind \in {"response", "http_429"}
                            THEN answered ELSE pacing.last_request,
                         sent    |-> sent,
                         outcome |-> outcome.kind,
                         earlier |-> [sent |-> pacing.sent,
                                      outcome |-> pacing.outcome]]
           /\ UNCHANGED pacingRest

InitPacing ==
    /\ gis_parcels_core = [p \in Parcels |-> BlankRow(1, "12 OAK ST", NoFema, 900)]
    /\ now = 1
    /\ limit = 0
    /\ RunIdle
    /\ usps_loaded = {}
    /\ usps_batch = <<>>
    /\ usps_rate_limited = {}
    /\ work_queue = <<>>
    /\ usps_journal = <<>>
    /\ consumers = [a \in Accounts |-> NoConsumer]
    /\ JournalIdle
    /\ BreakerIdle
    /\ LockIdle
    /\ ConvictionIdle
    /\ LaterIdle("pacing")
    /\ pacing = [last_request |-> 0, sent |-> Null, outcome |-> "none",
                 earlier |-> [sent |-> Null, outcome |-> "none"]]

NextPacing == CheckAddress

SpecPacing == InitPacing /\ [][NextPacing]_vars

\* C30: any two consecutive address-validation requests of one checker,
\* whether the earlier one succeeded, got a 429 or failed with a timeout or
\* a connection error, are at least delay_min seconds apart.
C30_RequestsSpaced ==
    (pacing # <<>> /\ pacing.earlier.sent # Null) =>
       pacing.sent - pacing.earlier.sent >= delay_min

\* ------------------------------------------------ the 429 backoff of one checker
\* check_address from the response on: _backoff_429 and the reset of
\* _consecutive_429s. Sleeps are in seconds.
Max429s == 6           \* consecutive 429 answers in one behaviour

BACKOFF_MAX == 900

BACKOFF_MULTIPLIER == 2

backoffRest == <<gis_parcels_core, now, runVars, usps_loaded, usps_batch,
                 usps_rate_limited, work_queue, consumers, usps_journal,
                 auxButBackoff>>

\* BACKOFF_MULTIPLIER ** n
Power(n) ==
    LET RECURSIVE pow(_)
        pow(i) == IF i = 0 THEN 1 ELSE BACKOFF_MULTIPLIER * pow(i - 1)
    IN  pow(n)

\* min(BACKOFF_START * BACKOFF_MULTIPLIER ** (consecutive - 1), BACKOFF_MAX)
backoff_base(consecutive) ==
    LET base == BACKOFF_START * Power(consecutive - 1)
    IN  IF base < BACKOFF_MAX THEN base ELSE BACKOFF_MAX

\* what the address request gives: a response with its status and its
\* Retry-After header (0: none), or an exception of the request itself
BackoffAnswers ==
    { [status |-> 200, retry_after |-> 0],
      [status |-> 404, retry_after |-> 0],
      [status |-> 429, retry_after |-> 0],
      [status |-> 429, retry_after |-> 60],
      [status |-> 500, retry_after |-> 0],
      [status |-> 503, retry_after |-> 0],
      [status |-> 0,   retry_after |-> 0] }

\* one check_address call from the answer on. The jitter is drawn at the
\* ends and in the middle of its range: random.uniform(5, 30) with a
\* Retry-After, random.uniform(0, base * 0.3) without.
CheckAddressBackoff ==
    \E answer \in BackoffAnswers, jitter \in {0, 1, 2} :
       LET count == backoff.consecutive_429s
       IN  /\ backoff.requests < Max429s + 2
           /\ IF answer.status = 429
              THEN /\ count < Max429s
                   /\ LET base == backoff_base(count + 1)
                          wait == IF answer.retry_after > 0
                                  THEN answer.retry_after + CASE jitter = 0 -> 5
                                                              [] jitter = 1 -> 17
                                                              [] jitter = 2 -> 30
                                  ELSE base + (jitter * ((base * 3) \div 10)) \div 2
                      IN  backoff' = [consecutive_429s |-> count + 1,
                                      before |-> count,
                                      answer |-> answer,
                                      wait |-> wait,
                                      requests |-> backoff.requests + 1]
              ELSE /\ jitter = 0
                   /\ backoff' = [consecutive_429s |->
                                     IF answer.status = 0 THEN count ELSE 0,
                                  before |-> count,
                                  answer |-> answer,
                                  wait |-> 0,
                                  requests |-> backoff.requests + 1]
           /\ UNCHANGED backoffRest

InitBackoff ==
    /\ gis_parcels_core = [p \in Parcels |-> BlankRow(1, "12 OAK ST", NoFema, 900)]
    /\ now = 1
    /\ limit = 0
    /\ RunIdle
    /\ usps_loaded = {}
    /\ usps_batch = <<>>
    /\ usps_rate_limited = {}
    /\ work_queue = <<>>
    /\ usps_journal = <<>>
    /\ consumers = [a \in Accounts |-> NoConsumer]
    /\ JournalIdle
    /\ BreakerIdle
    /\ LockIdle
    /\ ConvictionIdle
    /\ LaterIdle("backoff")
    /\ backoff = [consecutive_429s |-> 0, before |-> 0,
                  answer |-> [status |-> 0, retry_after |-> 0],
                  wait |-> 0, requests |-> 0]

NextBackoff == CheckAddressBackoff

SpecBackoff == InitBackoff /\ [][NextBackoff]_vars

\* C31: on a 429 without Retry-After and on a 5xx response the checker
\* backs off by min(120 * 2^(k-1), 900) seconds times a jitter in [1, 1.3],
\* k being the consecutive-failure count after incrementing it; only a
\* successful response puts the count back to 0.
C31_BackoffOn429And5xx ==
    (backoff # <<>> /\ backoff.requests > 0) =>
       /\ ( \/ backoff.answer.status = 429 /\ backoff.answer.retry_after = 0
            \/ backoff.answer.status >= 500 )
          => /\ backoff.consecutive_429s = backoff.before + 1
             /\ 10 * backoff.wait >= 10 * backoff_base(backoff.consecutive_429s)
             /\ 10 * backoff.wait <= 13 * backoff_base(backoff.consecutive_429s)
       /\ (backoff.before > 0 /\ backoff.consecutive_429s = 0)
          => backoff.answer.status = 200

\* ------------------------------------------------ the bearer token of one checker
\* check_address: _authenticate(), _random_delay(), then the request, in
\* seconds on the clock now. _token_expires is 0 until the first token.
MaxTokenClock == 3800  \* the clock stops here

\* data.get("expires_in", 3600), and the margin of _authenticate
expires_in == 3600

refresh_margin == 60

bearerRest == <<gis_parcels_core, runVars, usps_loaded, usps_batch,
                usps_rate_limited, work_queue, consumers, usps_journal,
                auxButBearer>>

\* _authenticate at time t: the token is kept while t < _token_expires - 60,
\* else a new one is fetched; the result is _token_expires
authenticate(token_expires, t) ==
    IF token_expires > 0 /\ t < token_expires - refresh_margin
    THEN token_expires
    ELSE t + expires_in

\* one call of check_address, answered after a second, and the consumer's
\* work up to the next call
CheckAddressToken ==
    \E target \in {delay_min, delay_max}, idle \in {0, 5} :
       LET expires == authenticate(bearer.token_expires, now)
           sent    == now + random_delay(bearer.last_request, now, target)
       IN  /\ sent + 1 + idle <= MaxTokenClock
           /\ now' = sent + 1 + idle
           /\ bearer' = [token_expires |-> expires,
                         last_request  |-> sent + 1,
                         sent          |-> sent,
                         checked       |-> now]
           /\ UNCHANGED bearerRest

InitToken ==
    /\ gis_parcels_core = [p \in Parcels |-> BlankRow(1, "12 OAK ST", NoFema, 900)]
    /\ now = 1
    /\ limit = 0
    /\ RunIdle
    /\ usps_loaded = {}
    /\ usps_batch = <<>>
    /\ usps_rate_limited = {}
    /\ work_queue = <<>>
    /\ usps_journal = <<>>
    /\ consumers = [a \in Accounts |-> NoConsumer]
    /\ JournalIdle
    /\ BreakerIdle
    /\ LockIdle
    /\ ConvictionIdle
    /\ LaterIdle("bearer")
    /\ bearer = [token_expires |-> 0, last_request |-> 0, sent |-> Null,
                 checked |-> Null]

NextToken == CheckAddressToken

SpecToken == InitToken /\ [][NextToken]_vars

\* C32: every address-validation request is sent with a bearer token that
\* is not within 60 seconds of its expiry at the moment the request is sent.
C32_TokenFreshAtSend ==
    (bearer # <<>> /\ bearer.sent # Null) =>
       bearer.sent < bearer.token_expires - refresh_margin

\* ------------------------------------------------ the geocoder cache
\* resolve_city_zip and the module-level _cache of src/usps/geocode.py, in
\* seconds on the clock now. A key is the normalised "street|county|state".
MaxGeoClock == 1300    \* the clock stops here
MaxGeoCalls == 4       \* calls of resolve_city_zip in one behaviour

_NEGATIVE_TTL == 600

GeoKeys == {"718 NORTON DR|GASTON|NC", "12 OAK ST|GASTON|NC"}

NoEntry == [confidence |-> "absent", city |-> NULL, zip |-> NULL, cached_at |-> 0]

\* what the search gives: one hit, several hits, a hit without city and
\* postcode, no hit, or an exception (timeout, HTTP error, bad JSON)
GeoAnswers ==
    { [kind |-> "one",     city |-> "GASTONIA", zip |-> "28052"],
      [kind |-> "several", city |-> "GASTONIA", zip |-> NULL],
      [kind |-> "bare",    city |-> NULL,       zip |-> NULL],
      [kind |-> "empty",   city |-> NULL,       zip |-> NULL],
      [kind |-> "raised",  city |-> NULL,       zip |-> NULL] }

\* the result dict built from an answer (without its source)
geo_result(answer) ==
    [city |-> answer.city,
     zip  |-> answer.zip,
     confidence |->
        IF answer.kind \in {"raised", "empty"} THEN "none"
        ELSE IF answer.city = NULL /\ answer.zip = NULL THEN "none"
        ELSE IF answer.kind = "one" THEN "exact" ELSE "ambiguous"]

\* an entry that expires whatever its confidence
expired_whatever(entry, t) == t - entry.cached_at > _NEGATIVE_TTL

\* cached_result.get("confidence") == "none"
\*   and (time.time() - cached_at) > _NEGATIVE_TTL
expired(entry, t) ==
    entry.confidence = "none" /\ t - entry.cached_at > _NEGATIVE_TTL

geocoderRest == <<gis_parcels_core, runVars, usps_loaded, usps_batch,
                  usps_rate_limited, work_queue, consumers, usps_journal,
                  auxButGeocoder>>

\* one call of resolve_city_zip for a key
ResolveCityZip(key) ==
    /\ geocoder.calls < MaxGeoCalls
    /\ LET entry == geocoder.cache[key]
       IN  IF entry # NoEntry /\ ~expired(entry, now)
           THEN geocoder' = [geocoder EXCEPT
                   !.calls = @ + 1,
                   !.last = [key |-> key, at |-> now, found |-> entry,
                             requested |-> FALSE,
                             result |-> [city |-> entry.city, zip |-> entry.zip,
                                         confidence |-> entry.confidence,
                                         source |-> "cache"]]]
           ELSE \E answer \in GeoAnswers :
                   LET result == geo_result(answer)
                   IN  geocoder' = [geocoder EXCEPT
                          !.calls = @ + 1,
                          !.cache[key] = [confidence |-> result.confidence,
                                          city |-> result.city,
                                          zip |-> result.zip,
                                          cached_at |-> now],
                          !.last = [key |-> key, at |-> now, found |-> entry,
                                    requested |-> TRUE,
                                    result |-> [city |-> result.city,
                                                zip |-> result.zip,
                                                confidence |-> result.confidence,
                                                source |-> "nominatim"]]]
    /\ UNCHANGED <<now, geocoderRest>>

\* time passes between calls: five minutes, or a second more
GeoTick ==
    /\ \E d \in {300, 301} :
          /\ now + d <= MaxGeoClock
          /\ now' = now + d
    /\ UNCHANGED <<geocoder, geocoderRest>>

InitGeocode ==
    /\ gis_parcels_core = [p \in Parcels |-> BlankRow(1, "12 OAK ST", NoFema, 900)]
    /\ now = 1
    /\ limit = 0
    /\ RunIdle
    /\ usps_loaded = {}
    /\ usps_batch = <<>>
    /\ usps_rate_limited = {}
    /\ work_queue = <<>>
    /\ usps_journal = <<>>
    /\ consumers = [a \in Accounts |-> NoConsumer]
    /\ JournalIdle
    /\ BreakerIdle
    /\ LockIdle
    /\ ConvictionIdle
    /\ LaterIdle("geocoder")
    /\ geocoder = [cache |-> [k \in GeoKeys |-> NoEntry],
                   calls |-> 0,
                   last  |-> [key |-> "", at |-> 0, found |-> NoEntry,
                              requested |-> FALSE,
                              result |-> [city |-> NULL, zip |-> NULL,
                                          confidence |-> "none", source |-> ""]]]

NextGeocode ==
    \/ \E key \in GeoKeys : ResolveCityZip(key)
    \/ GeoTick

SpecGeocode == InitGeocode /\ [][NextGeocode]_vars

\* ------------------------------------------------ the geocoder cache: properties
Positive(entry) == entry.confidence \in {"exact", "ambiguous"}

Negative(entry) == entry.confidence = "none"

\* C33: after a positive result every later call for the key returns the
\* cached value without a request (a positive entry is never replaced); after
\* a negative result a call within 10 minutes returns the cached negative
\* without a request, and a call after 10 minutes issues a new request.
C33_CacheLifetimes ==
    /\ [](geocoder # <<>> =>
            LET last == geocoder.last
            IN  /\ Positive(last.found) =>
                      /\ ~last.requested
                      /\ last.result.city = last.found.city
                      /\ last.result.zip = last.found.zip
                      /\ last.result.confidence = last.found.confidence
                /\ (Negative(last.found) /\ last.at - last.found.cached_at <= 600) =>
                      /\ ~last.requested
                      /\ last.result.confidence = "none"
                /\ (Negative(last.found) /\ last.at - last.found.cached_at > 600) =>
                      last.requested)
    /\ [][geocoder # <<>> =>
            \A k \in GeoKeys :
               Positive(geocoder.cache[k]) => geocoder'.cache[k] = geocoder.cache[k]]_vars

\* a positive entry answered a call more than ten minutes after it was
\* stored, and the other key's negative entry was asked again after its ten
\* minutes
C33_Witness ==
    /\ geocoder # <<>>
    /\ \E k \in GeoKeys :
          /\ Positive(geocoder.cache[k])
          /\ geocoder.cache[k].cached_at = 1
          /\ \E j \in GeoKeys \ {k} :
                /\ geocoder.last.key = j
                /\ Negative(geocoder.last.found)
                /\ geocoder.last.requested
    /\ now > 601

\* ------------------------------------------------ the CDSE budget of a trend run
budgetRest == <<now, runVars, usps_loaded, usps_batch, usps_rate_limited,
                work_queue, consumers, usps_journal, auxButBudget>>

\* --max-requests: 0 stands for the option left out (None) and for 0, both
\* falsy in "if args.max_requests and ..."
MaxRequests == {0, 1, 2}

\* enrich_sentinel for one parcel: sentinel_trends is tried first (one CDSE
\* request unless SentinelClient() raises EnvironmentError for want of
\* credentials); "Sentinel-2" only when months_with_data > 0; otherwise
\* landsat_trends, "Landsat" when it has data, else no source at all
enrich_sentinel(configured) ==
    {[sentinel_data_source |-> src, requests |-> IF configured THEN 1 ELSE 0] :
        src \in IF configured THEN {"Sentinel-2", "Landsat", NULL}
                              ELSE {"Landsat", NULL}}

\* flush_buffer: the whole buffer goes to batch_update_sentinel_results
TrendFlush(store, buffer) ==
    IF buffer = <<>> THEN store
    ELSE batch_update_sentinel_results(store, buffer, NumChunks(buffer))

\* main, up to the loop: the parcels are loaded once
TrendLoad ==
    /\ budget.phase = "start"
    /\ budget' = [budget EXCEPT
            !.parcels = ApplyLimit(
                SortBy(get_sentinel_worthy_parcels(gis_parcels_core), md5), limit),
            !.phase = IF get_sentinel_worthy_parcels(gis_parcels_core) = {}
                      THEN "done" ELSE "loop"]
    /\ UNCHANGED <<gis_parcels_core, budgetRest>>

\* SIGINT / SIGTERM: the handler sets shutdown_event
TrendSignal ==
    /\ budget.phase = "loop"
    /\ ~budget.shutdown
    /\ budget' = [budget EXCEPT !.shutdown = TRUE]
    /\ UNCHANGED <<gis_parcels_core, budgetRest>>

\* one iteration of "for i, parcel in enumerate(parcels)": the shutdown check,
\* the budget guard, enrich_sentinel, the counters, the row appended and the
\* threshold flush; a break runs the final flush and ends the run
TrendStep ==
    /\ budget.phase = "loop"
    /\ IF \/ budget.i >= Len(budget.parcels)
          \/ budget.shutdown
          \/ (budget.max_requests # 0 /\ budget.cdse_requests >= budget.max_requests)
       THEN /\ gis_parcels_core' = TrendFlush(gis_parcels_core, budget.results_buffer)
            /\ budget' = [budget EXCEPT !.phase = "done", !.results_buffer = <<>>]
       ELSE \E r \in enrich_sentinel(budget.configured) :
              LET p      == budget.parcels[budget.i + 1]
                  buffer == Append(budget.results_buffer, rescore_with_sentinel(p, now))
                  flush  == Len(buffer) >= FlushEvery
              IN  /\ gis_parcels_core' = IF flush THEN TrendFlush(gis_parcels_core, buffer)
                                         ELSE gis_parcels_core
                  /\ budget' = [budget EXCEPT
                        !.i = @ + 1,
                        !.issued = @ + r.requests,
                        !.cdse_requests =
                            IF r.sentinel_data_source = "Sentinel-2" THEN @ + 1 ELSE @,
                        !.landsat_fallback =
                            IF r.sentinel_data_source = "Landsat" THEN @ + 1 ELSE @,
                        !.results_buffer = IF flush THEN <<>> ELSE buffer]
    /\ UNCHANGED budgetRest

InitTrendBudget ==
    /\ gis_parcels_core = [p \in Parcels |->
            [BlankRow(1, "12 OAK ST", NoFema, 900) EXCEPT !.sentinel_worthy = TRUE]]
    /\ now = 5
    /\ limit = 0
    /\ RunIdle
    /\ usps_loaded = {}
    /\ usps_batch = <<>>
    /\ usps_rate_limited = {}
    /\ work_queue = <<>>
    /\ usps_journal = <<>>
    /\ consumers = [a \in Accounts |-> NoConsumer]
    /\ JournalIdle
    /\ BreakerIdle
    /\ LockIdle
    /\ ConvictionIdle
    /\ LaterIdle("budget")
    /\ \E m \in MaxRequests, c \in BOOLEAN :
          budget = [max_requests |-> m, configured |-> c, phase |-> "start",
                    parcels |-> <<>>, i |-> 0, shutdown |-> FALSE,
                    cdse_requests |-> 0, landsat_fallback |-> 0, issued |-> 0,
                    results_buffer |-> <<>>]

NextTrendBudget ==
    \/ TrendLoad
    \/ TrendSignal
    \/ TrendStep

SpecTrendBudget == InitTrendBudget /\ [][NextTrendBudget]_vars

\* C35: with --max-requests N set, a trend run sends at most N requests to
\* the CDSE Sentinel-2 archive, requests that fail or return no data and fall
\* back to Landsat included
C35_BudgetCapsRequests ==
    (budget # <<>> /\ budget.max_requests # 0) =>
        budget.issued <= budget.max_requests

\* ------------------------------------------------ the counters of a shape-A run
ShapeA == {"batch_ndvi_scan", "batch_historical_slope"}

\* stats: "scanned" (pass 1) or "processed" (slope pass), and "errors"
NoStats == [processed |-> 0, errors |-> 0]

\* an except branch that counts nothing
on_exception_uncounted(stats) == stats

\* "except Exception as e: ... with stats_lock: stats["errors"] += 1"
on_exception(stats) == [stats EXCEPT !.errors = @ + 1]

\* "with stats_lock: stats["scanned"] += 1" / "stats["processed"] += 1"
on_return(stats) == [stats EXCEPT !.processed = @ + 1]

tallyRest == <<usps_loaded, usps_batch, usps_rate_limited, work_queue,
               consumers, usps_journal, auxButTally>>

\* main() of the script up to the executor: one process, one run
TallyLoad ==
    /\ pc = "idle"
    /\ runs' = runs + 1
    /\ \E d \in BOOLEAN : dry_run' = d
    /\ IF tally.script = "batch_ndvi_scan"
       THEN /\ parcels' = get_unscanned_parcels(gis_parcels_core, limit)
            /\ UNCHANGED gis_parcels_core
       ELSE \E composite_only \in BOOLEAN :
            /\ parcels' = IF composite_only THEN <<>>
                          ELSE get_parcels_needing_slope(gis_parcels_core, limit)
            /\ gis_parcels_core' =
                  IF composite_only \/ (parcels' = <<>> /\ ~dry_run')
                  THEN compute_composite_scores(gis_parcels_core)
                  ELSE gis_parcels_core
    /\ pc' = IF parcels' = <<>> THEN "done" ELSE "submit"
    /\ futures' = [p \in Parcels |-> NotSubmitted]
    /\ collected' = {}
    /\ results_buffer' = <<>>
    /\ shutdown_event' = FALSE
    /\ completed' = {}
    /\ drained' = {}
    /\ late_calls' = {}
    /\ tally' = [tally EXCEPT !.stats = NoStats]
    /\ UNCHANGED <<tallyRest, now, limit, committed>>

\* the task of parcel p returns: its collectors answered or failed, or its
\* try block raised; either way one counter goes up
TallyFinish(p) ==
    /\ pc \in Active
    /\ futures[p].state = "running"
    /\ \E raised \in BOOLEAN :
       \E result \in
            IF tally.script = "batch_ndvi_scan"
            THEN { scan_single_parcel(p, resp, fema, raised, now) :
                      resp \in NaipResponses,
                      fema \in {f \in FloodAnswers : f.errors} }
            ELSE { compute_slope_for_parcel(p, gis_parcels_core[p], historical, raised) :
                      historical \in HistoricalReadings } :
         /\ futures' = [futures EXCEPT ![p] = [state |-> "done", result |-> result]]
         /\ completed' = IF result = NoResult THEN completed ELSE completed \cup {p}
         /\ tally' = [tally EXCEPT !.stats = IF raised THEN on_exception(@)
                                                        ELSE on_return(@)]
    /\ UNCHANGED <<tallyRest, gis_parcels_core, now, pc, runs, limit, parcels,
                   collected, results_buffer, shutdown_event, dry_run, committed,
                   drained, late_calls>>

InitTally ==
    /\ \E script \in ShapeA :
         /\ tally = [script |-> script, stats |-> NoStats]
         /\ gis_parcels_core \in
               IF script = "batch_ndvi_scan"
               THEN [Parcels -> {BlankRow(1, "12 OAK ST", NoFema, Null)}]
               ELSE [Parcels -> {ScannedRow(1), ScannedRow(Null)}]
    /\ now = 1
    /\ limit \in Limits
    /\ RunIdle
    /\ usps_loaded = {}
    /\ usps_batch = <<>>
    /\ usps_rate_limited = {}
    /\ work_queue = <<>>
    /\ usps_journal = <<>>
    /\ consumers = [a \in Accounts |-> NoConsumer]
    /\ JournalIdle
    /\ BreakerIdle
    /\ LockIdle
    /\ ConvictionIdle
    /\ LaterIdle("tally")

\* a run nobody interrupts: no SIGINT, no kill
NextTally ==
    \/ TallyLoad
    \/ SubmitOne
    \/ WorkerStart
    \/ \E p \in Parcels : TallyFinish(p)
    \/ tally.script = "batch_ndvi_scan" /\ \E p \in Parcels : CollectOne(p)
    \/ tally.script = "batch_ndvi_scan" /\ CollectEnd
    \/ tally.script = "batch_ndvi_scan" /\ ExecutorExit
    \/ tally.script = "batch_ndvi_scan" /\ Drain
    \/ tally.script = "batch_ndvi_scan" /\ FinalFlush
    \/ tally.script = "batch_historical_slope" /\ \E p \in Parcels : SlopeCollectOne(p)
    \/ tally.script = "batch_historical_slope" /\ SlopeCollectEnd
    \/ tally.script = "batch_historical_slope" /\ SlopeDrain
    \/ tally.script = "batch_historical_slope" /\ SlopeExecutorExit
    \/ tally.script = "batch_historical_slope" /\ SlopeFinalFlush

\* the main thread and the pool threads keep being scheduled, and every
\* collector request carries a timeout, so a step that can be taken is taken
SpecTally == InitTally /\ [][NextTally]_vars /\ WF_vars(NextTally)

\* C36: in pass 1 and the slope pass, with no interrupt, a collector failure
\* or an exception on one parcel does not stop the run: a started run reaches
\* its end, it gets there through the final flush with every buffered row in
\* that flush's batch, and by then every loaded parcel has been counted as
\* processed or as an error
C36_RunsEndCounted ==
    /\ [](tally # <<>> /\ pc \in {"final", "done"} /\ runs > 0 =>
            tally.stats.processed + tally.stats.errors = Len(parcels))
    /\ [][pc # "done" /\ pc' = "done" /\ parcels' # <<>> =>
            pc = "final" /\ Ids(results_buffer) \subseteq drained']_vars
    /\ (pc \in Active ~> pc = "done")

C36_Witness ==
    /\ tally # <<>>
    /\ pc = "done"
    /\ Len(parcels) >= 2
    /\ tally.stats.errors > 0
    /\ tally.stats.processed > 0

\* ------------------------------------------------ a failed flush of a shape-A run
requeueRest == <<now, runVars, usps_loaded, usps_batch, usps_rate_limited,
                 work_queue, consumers, usps_journal, auxButRequeue>>

\* the row a task of the script returned for parcel p
TaskRow(script, p) ==
    IF script = "batch_ndvi_scan"
    THEN scan_single_parcel(p, [kind |-> "ok", ndvi |-> 60],
                            CHOOSE f \in FloodAnswers : f.errors, FALSE, now)
    ELSE compute_slope_for_parcel(p, gis_parcels_core[p],
                                  <<[year |-> 2022, ndvi |-> 55]>>, FALSE)

\* "with buffer_lock: results_buffer.append(result)": a producer appends a
\* row under the lock, which flush_buffer holds only while it drains the
\* buffer and while it puts a batch back (in the scripts as written the
\* producer is the main thread itself)
RequeueAppend(p) ==
    /\ p \notin requeue.appended
    /\ requeue' = [requeue EXCEPT
            !.results_buffer = Append(@, TaskRow(requeue.script, p)),
            !.appended = @ \cup {p}]
    /\ UNCHANGED <<gis_parcels_core, requeueRest>>

\* flush_buffer, first half: "batch = list(results_buffer);
\* results_buffer.clear()" under the lock (an empty buffer returns at once);
\* a dry run prints the batch, counts it and returns
RequeueTake ==
    /\ requeue.batch = <<>>
    /\ requeue.results_buffer # <<>>
    /\ requeue' = [requeue EXCEPT
            !.results_buffer = <<>>,
            !.batch = IF requeue.dry_run THEN <<>> ELSE requeue.results_buffer,
            !.flushed = IF requeue.dry_run THEN @ + Len(requeue.results_buffer) ELSE @,
            !.taken = Ids(requeue.results_buffer),
            !.put_back = {},
            !.raised = FALSE]
    /\ UNCHANGED <<gis_parcels_core, requeueRest>>

\* flush_buffer, second half: the store update on a fresh connection. It
\* commits k chunks; k short of all of them means it raised (k = 0 also stands
\* for get_db_connection raising), and the except branch puts the batch back
RequeueWrite ==
    /\ requeue.batch # <<>>
    /\ \E k \in 0..NumChunks(requeue.batch) :
         LET raised == k < NumChunks(requeue.batch) IN
         /\ gis_parcels_core' =
               IF requeue.script = "batch_ndvi_scan"
               THEN batch_update_scan_results(gis_parcels_core, requeue.batch, k)
               ELSE batch_update_slope_results(gis_parcels_core, requeue.batch, k)
         /\ requeue' = [requeue EXCEPT
               !.batch = <<>>,
               !.flushed = IF raised THEN @ ELSE @ + Len(requeue.batch),
               !.results_buffer =
                   IF raised THEN extendleft(@, requeue.batch) ELSE @,
               !.put_back = IF raised THEN Ids(requeue.batch) ELSE {},
               !.raised = raised]
    /\ UNCHANGED requeueRest

InitRequeue ==
    /\ \E script \in ShapeA, d \in BOOLEAN :
         /\ requeue = [script |-> script, dry_run |-> d,
                       results_buffer |-> <<>>, batch |-> <<>>, flushed |-> 0,
                       appended |-> {}, taken |-> {}, put_back |-> {},
                       raised |-> FALSE]
         /\ gis_parcels_core \in
               IF script = "batch_ndvi_scan"
               THEN [Parcels -> {BlankRow(1, "12 OAK ST", NoFema, Null)}]
               ELSE [Parcels -> {ScannedRow(1), ScannedRow(Null)}]
    /\ now = 1
    /\ limit = 0
    /\ RunIdle
    /\ usps_loaded = {}
    /\ usps_batch = <<>>
    /\ usps_rate_limited = {}
    /\ work_queue = <<>>
    /\ usps_journal = <<>>
    /\ consumers = [a \in Accounts |-> NoConsumer]
    /\ JournalIdle
    /\ BreakerIdle
    /\ LockIdle
    /\ ConvictionIdle
    /\ LaterIdle("requeue")

NextRequeue ==
    \/ \E p \in Parcels : RequeueAppend(p)
    \/ RequeueTake
    \/ RequeueWrite

SpecRequeue == InitRequeue /\ [][NextRequeue]_vars

\* C37: when the store update of a pass-1 or slope-pass flush raises, every
\* row of the drained batch goes back into the results buffer (once), the
\* flushed counter stays as it was, the rows appended while the flush was
\* under way are still in the buffer, and the next flush drains the rows put
\* back with its batch
C37_FailedFlushPutsBack ==
    [][requeue # <<>> =>
        /\ (requeue.batch # <<>> /\ requeue'.batch = <<>> /\ requeue'.raised) =>
              /\ Ids(requeue.batch) \subseteq Ids(requeue'.results_buffer)
              /\ Ids(requeue.results_buffer) \subseteq Ids(requeue'.results_buffer)
              /\ Len(requeue'.results_buffer) =
                    Len(requeue.batch) + Len(requeue.results_buffer)
              /\ requeue'.flushed = requeue.flushed
        /\ (requeue.results_buffer # <<>> /\ requeue'.results_buffer = <<>>) =>
              requeue.put_back \subseteq requeue'.taken]_vars

\* a flush failed after a row was appended behind its back: the batch and
\* that row are in the buffer
C37_Witness ==
    /\ requeue # <<>>
    /\ requeue.raised
    /\ requeue.put_back # {}
    /\ Len(requeue.results_buffer) > Cardinality(requeue.put_back)

\* ------------------------------------------------ the vacancy flag in the store
\* what the address endpoint can answer to one check: a 200 that reports the
\* address vacant, occupied or neither, a transient or a permanent error
\* status, or no answer (the request raised, here with an empty message, which
\* "if not err" takes for no error)
VacancyAnswers ==
    { [status |-> 200, vacant |-> "Y", DPVConfirmation |-> "Y", mismatch |-> FALSE, exc |-> ""],
      [status |-> 200, vacant |-> "N", DPVConfirmation |-> "Y", mismatch |-> FALSE, exc |-> ""],
      [status |-> 200, vacant |-> "",  DPVConfirmation |-> "",  mismatch |-> FALSE, exc |-> ""],
      [status |-> 429, vacant |-> "",  DPVConfirmation |-> "",  mismatch |-> FALSE, exc |-> ""],
      [status |-> 404, vacant |-> "",  DPVConfirmation |-> "",  mismatch |-> FALSE, exc |-> ""],
      [status |-> 0,   vacant |-> "",  DPVConfirmation |-> "",  mismatch |-> FALSE, exc |-> ""] }

\* a flush of a vacancy run (or a replay of its backup file): the rows of the
\* checks of some parcels go to batch_update_usps_results, which commits them
\* or raises before its commit
FlagBatchWrite ==
    /\ \/ gis_parcels_core' =
             batch_update_usps_results(gis_parcels_core, <<>>, now, TRUE)
       \/ \E S \in SUBSET Parcels \ {{}} : \E resp \in [S -> VacancyAnswers] :
            LET order   == SortBy(S, [p \in S |-> p])
                results == [i \in 1..Len(order) |->
                              check_single_parcel(order[i], resp[order[i]])]
            IN  gis_parcels_core' =
                   batch_update_usps_results(gis_parcels_core, results, now, FALSE)
    /\ UNCHANGED <<now, runVars, uspsVars>>

\* GET /check_usps_vacancy with parcel_id and county: one check (unless the
\* cache answers) and update_parcel_usps
FlagApiWrite(p) ==
    /\ \E force \in BOOLEAN :
         force \/ ~get_usps_cache(gis_parcels_core[p], now, cache_days)
    /\ \E resp \in VacancyAnswers :
         gis_parcels_core' =
            update_parcel_usps(gis_parcels_core, check_single_parcel(p, resp), now)
    /\ UNCHANGED <<now, runVars, uspsVars>>

InitVacancyFlag ==
    /\ gis_parcels_core = [p \in Parcels |-> BlankRow(1, "12 OAK ST", NoFema, 900)]
    /\ now = 1
    /\ limit = 0
    /\ RunIdle
    /\ UspsIdle

NextVacancyFlag ==
    \/ FlagBatchWrite
    \/ \E p \in Parcels : FlagApiWrite(p)

SpecVacancyFlag == InitVacancyFlag /\ [][NextVacancyFlag]_vars

\* C38: in every store state the vacancy writers (batch_update_usps_results,
\* update_parcel_usps) can reach, a row with flag_vacancy = TRUE has
\* usps_vacant = TRUE and usps_error IS NULL
C38_FlagMeansVacantNoError ==
    \A p \in Parcels :
        gis_parcels_core[p].flag_vacancy = TRUE =>
            /\ gis_parcels_core[p].usps_vacant = "TRUE"
            /\ gis_parcels_core[p].usps_error = NULL

\* a flagged row next to a row whose flag an error write cleared: that row
\* still says vacant, from the earlier check
C38_Witness ==
    \E p, q \in Parcels :
        /\ gis_parcels_core[p].flag_vacancy = TRUE
        /\ gis_parcels_core[q].flag_vacancy = FALSE
        /\ gis_parcels_core[q].usps_vacant = "TRUE"
        /\ gis_parcels_core[q].usps_error # NULL

\* ------------------------------------------------ vacancy pass: one pull per parcel
\* the parcels consumers are holding (pulled, check not yet finished)
HeldBy(cs) == {cs[a].parcel : a \in {b \in Accounts : cs[b].parcel # 0}}

\* C39: within one vacancy run each queued parcel is pulled by exactly one
\* consumer and checked at most once, whatever the interleaving and also
\* after failed flushes put results back in the buffer. The queue lists no
\* parcel twice, a parcel a consumer holds is neither in the queue nor held
\* by another consumer nor already checked; during a run the queue only
\* loses parcels; a consumer takes a parcel only from the head of the queue,
\* which that step removes; and a consumer comes to its request only from
\* the pull (or the delay after it), so one pull makes one request
C39_OnePullOneCheck ==
    /\ [](LET queued == Range(work_queue)
               held_now == HeldBy(consumers)
           IN  /\ Cardinality(queued) = Len(work_queue)
               /\ \A a, b \in Accounts :
                     (a # b /\ consumers[a].parcel # 0) =>
                         consumers[a].parcel # consumers[b].parcel
               /\ held_now \cap queued = {}
               /\ held_now \cap completed = {}
               /\ completed \cap queued = {})
    /\ [][/\ (runs' = runs /\ work_queue' # work_queue) =>
                Range(work_queue') \subseteq Range(work_queue)
          /\ consumers' = consumers \/ \A a \in Accounts :
               /\ (consumers'[a].parcel # 0 /\ consumers'[a].parcel # consumers[a].parcel) =>
                     /\ consumers[a].parcel = 0
                     /\ consumers[a].state = "get"
                     /\ work_queue # <<>>
                     /\ consumers'[a].parcel = Head(work_queue)
                     /\ work_queue' = Tail(work_queue)
               /\ (consumers'[a].state = "request" /\ consumers[a].state # "request") =>
                     /\ consumers[a].state \in {"get", "delay"}
                     /\ consumers'[a].parcel # 0
               /\ (consumers[a].state = "request" /\ consumers'[a] # consumers[a]) =>
                     consumers'[a].state # "request"]_vars

\* both consumers have pulled and checked a parcel of their own, and a failed
\* flush has put results back in the buffer
C39_Witness ==
    /\ pc \in UspsAlive
    /\ work_queue = <<>>
    /\ Cardinality(completed) >= 2
    /\ \A a \in Accounts : consumers[a].requested
    /\ results_buffer # <<>>
    /\ ~dry_run


====
